---------------------------- MODULE Spec2Model ----------------------------
(***************************************************************************)
(* A model of the bare-module pipeline of playground-elements:             *)
(*   - CachingCdn               (typescript-worker/cdn.ts)                  *)
(*   - BareModuleTransformer    (typescript-worker/bare-module-transformer) *)
(*                                                                         *)
(* Strings are sequences of tokens.  A token is a TLA+ string standing for *)
(* a run of characters ("foo", "@", "/", ".js", "import", ...), so string  *)
(* concatenation is \o, substring is SubSeq and an offset counts tokens.   *)
(* undefined / '' are both the empty sequence where the code treats them   *)
(* alike (`!location.version`), and a record with a tag elsewhere.         *)
(***************************************************************************)
EXTENDS Naturals, Integers, Sequences, FiniteSets, TLC

---------------------------------------------------------------------------
(* Bounds of the model.                                                    *)

\* the number of import occurrences of the project's JS file
MaxOcc == 2
\* the number of CachingCdn calls made by the callers of the CDN-only specs
MaxCalls == 3

---------------------------------------------------------------------------
(* String utilities (typescript-worker/util.ts), on token sequences.       *)

\* JavaScript's s.substring(a, b) with 0-based, half-open offsets
Substring(s, a, b) ==
  SubSeq(s, (IF a > Len(s) THEN Len(s) ELSE a) + 1, IF b > Len(s) THEN Len(s) ELSE b)

\* JavaScript's s.slice(a) and s.substring(a), 0 <= a
SliceFrom(s, a) == SubSeq(s, (IF a > Len(s) THEN Len(s) ELSE a) + 1, Len(s))

StartsWith(s, p) == Len(s) >= Len(p) /\ SubSeq(s, 1, Len(p)) = p

\* tokens that are a file extension, dot included
ExtTokens == {".js", ".json", ".ts"}

\* tokens that cannot be part of a package name or of a version
Separators == {"/", "@"}

\* fileExtension(path): '' (here <<>>) when the last segment has none
fileExtension(path) ==
  IF Len(path) > 0 /\ path[Len(path)] \in ExtTokens
    THEN <<path[Len(path)]>>
    ELSE <<>>

Undefined == [defined |-> FALSE]

Loc(pkg, version, path) == [pkg |-> pkg, version |-> version, path |-> path]

Defined(loc) == [defined |-> TRUE, pkg |-> loc.pkg, version |-> loc.version,
                 path |-> loc.path]

\* the part of parseNpmStyleSpecifier after the version: an optional "/"
\* and the path
ParsePath(pkg, version, rest) ==
  IF Len(rest) = 0 THEN Defined(Loc(pkg, version, <<>>))
  ELSE IF rest[1] = "/" THEN Defined(Loc(pkg, version, Tail(rest)))
  ELSE Undefined

\* the part of parseNpmStyleSpecifier after the package name, which ends at
\* token nameAt: an optional "@" and version
ParseVersion(s, nameAt) ==
  IF Len(s) >= nameAt + 2 /\ s[nameAt + 1] = "@" /\ s[nameAt + 2] # "/"
    THEN ParsePath(SubSeq(s, 1, nameAt), <<s[nameAt + 2]>>, SliceFrom(s, nameAt + 2))
    ELSE ParsePath(SubSeq(s, 1, nameAt), <<>>, SliceFrom(s, nameAt))

\* parseNpmStyleSpecifier: [@scope/]name[@version][/path], undefined when
\* the specifier has no such shape.
parseNpmStyleSpecifier(s) ==
  IF Len(s) >= 4 /\ s[1] = "@" /\ s[2] \notin Separators /\ s[3] = "/"
       /\ s[4] \notin Separators
    THEN ParseVersion(s, 4)
  ELSE IF Len(s) >= 1 /\ s[1] \notin Separators
    THEN ParseVersion(s, 1)
  ELSE Undefined

\* `${pkg}@${version}/${path}`
LocKey(loc) == loc.pkg \o <<"@">> \o loc.version \o <<"/">> \o loc.path

---------------------------------------------------------------------------
(* The state.                                                              *)

VARIABLES
  versionCache,   \* CachingCdn._versionCache: pkg@range -> exact version
  fileCache,      \* CachingCdn._fileCache: pkg@version/path -> {url, file}
  inflight,       \* network requests issued and not yet answered: url -> count
  netLog          \* answered network requests: [url, status, resUrl] -> count

VARIABLES
  callers,        \* each caller's call: idle, waiting on the network, or done
  calls           \* the number of calls made so far

VARIABLES
  importMap,      \* the import map of the ModuleResolver that the constructor is given
  input,          \* the build outputs that process() is given
  inPos,          \* _process: the index of the next build output to read
  processDone,    \* the generator _process has returned
  deferred,       \* _process: the Deferred packageJson
  handled,        \* BareModuleTransformer._alreadyHandled
  tasks,          \* the producers added to merged other than _process
  proms,          \* the newSpecifierPromise of every specifier occurrence
  nsrc,           \* MergedAsyncIterables: the producers that have not ended
  buffer,         \* MergedAsyncIterables: items produced and not yet taken
  out,            \* the items that the consumer of process() has received
  mergedDone      \* the stream that process() returns has ended

cdnVars == <<versionCache, fileCache, inflight, netLog>>

callerVars == <<callers, calls>>

transformerVars == <<importMap, input, inPos, processDone, deferred, handled, tasks, proms,
                     nsrc, buffer, out, mergedDone>>

VARIABLES
  crawls,                 \* TypesFetcher: the calls of _handleBareSpecifier and
                          \* _handleRelativeSpecifier, each at its await
  entrypointTasks,        \* TypesFetcher._entrypointTasks
  handledSpecifiers,      \* TypesFetcher._handledSpecifiers
  specifierToFetchResult, \* TypesFetcher._specifierToFetchResult, in insertion order
  rootDependencies,       \* TypesFetcher._rootDependencies
  dependencyGraph,        \* TypesFetcher._dependencyGraph
  getFiles                \* the call of TypesFetcher.getFiles

VARIABLE cdnData          \* the packages that the CDN serves

VARIABLES
  fileAPIs,             \* service worker: session id -> the Deferred of its file API
  deferredAPIs,         \* service worker: the Deferred values made so far
  fetches,              \* service worker: the fetch events, each at its await
  postedMessages,       \* messages of the service worker that the client has not handled
  connected,            \* the client has made its call of setFileAPI after the handshake
  compiles,             \* CodeSampleEditor: the calls of _compileProject
  compiledFilesPromise, \* CodeSampleEditor._compiledFilesPromise
  compiledFiles,        \* CodeSampleEditor._compiledFiles
  getFileCalls          \* CodeSampleEditor: the calls of _getFile

pageVars == <<fileAPIs, deferredAPIs, fetches, postedMessages, connected, compiles,
              compiledFilesPromise, compiledFiles, getFileCalls>>

typesFetcherVars == <<crawls, entrypointTasks, handledSpecifiers,
                      specifierToFetchResult, rootDependencies, dependencyGraph,
                      getFiles>>

vars == <<cdnVars, callerVars, transformerVars, cdnData, typesFetcherVars, pageVars>>

---------------------------------------------------------------------------
(* The package CDN (unpkg.com): the packages it serves.                    *)

Import(spec) == <<"import", "\"">> \o spec \o <<"\"", ";">>

\* a specifier that is a URL
UrlSpecifier == <<"https:", "//", "example.com", "/", "x", ".js">>

NoDeps == [p \in {} |-> <<>>]

\* a body that is not JSON: its text
Js(text) == [type |-> "js", text |-> text, valid |-> FALSE,
             dependencies |-> NoDeps, module |-> <<>>, main |-> <<>>]

\* a body that is JSON: the fields of PackageJson that the code reads
\* (<<>> for a field that is absent)
Json(deps, module, main) ==
  [type |-> "json", text |-> <<"{", "}">>, valid |-> TRUE,
   dependencies |-> deps, module |-> module, main |-> main]

\* a package.json whose body does not parse
NotJson == Js(<<"{", "not json">>)

CdnFiles ==
  { [pkg |-> <<"foo">>, version |-> "1.0.0", path |-> <<"package", ".json">>,
     content |-> Json(NoDeps, <<>>, <<>>)],
    [pkg |-> <<"foo">>, version |-> "1.0.0", path |-> <<"index", ".js">>,
     content |-> Js(Import(<<"./", "other", ".js">>))],
    [pkg |-> <<"foo">>, version |-> "1.0.0", path |-> <<"other", ".js">>,
     content |-> Js(Import(<<"./", "index", ".js">>))],
    [pkg |-> <<"foo">>, version |-> "2.0.0", path |-> <<"package", ".json">>,
     content |-> Json([p \in {<<"bar">>} |-> <<"^1.0.0">>], <<>>, <<>>)],
    [pkg |-> <<"foo">>, version |-> "2.0.0", path |-> <<"index", ".js">>,
     content |-> Js(Import(<<"bar">>))],
    [pkg |-> <<"bar">>, version |-> "1.0.0", path |-> <<"package", ".json">>,
     content |-> Json(NoDeps, <<>>, <<"main", ".js">>)],
    [pkg |-> <<"bar">>, version |-> "1.0.0", path |-> <<"main", ".js">>,
     content |-> Js(Import(<<"./", "util">>))],
    [pkg |-> <<"bar">>, version |-> "1.0.0", path |-> <<"util", ".js">>,
     content |-> Js(Import(UrlSpecifier))],
    [pkg |-> <<"bar">>, version |-> "2.0.0", path |-> <<"package", ".json">>,
     content |-> NotJson],
    [pkg |-> <<"bar">>, version |-> "2.0.0", path |-> <<"index", ".js">>,
     content |-> Js(<<"bar2">>)],
    [pkg |-> <<"qux">>, version |-> "1.0.0", path |-> <<"index", ".js">>,
     content |-> Js(Import(<<"foo">>))],
    [pkg |-> <<"qux">>, version |-> "2.0.0", path |-> <<"package", ".json">>,
     content |-> NotJson],
    [pkg |-> <<"qux">>, version |-> "2.0.0", path |-> <<"index", ".js">>,
     content |-> Js(Import(<<"foo">>))],
    [pkg |-> <<"quz">>, version |-> "1.0.0", path |-> <<"package", ".json">>,
     content |-> Json(NoDeps, <<>>, <<>>)],
    [pkg |-> <<"quz">>, version |-> "1.0.0", path |-> <<"index", ".js">>,
     content |-> Js(Import(<<"foo">>))] }

\* the exact versions a version or range token names, in the CDN's semver
VersionsOf(range) ==
  CASE range = "latest" -> {"1.0.0", "2.0.0"}
    [] range = "^1.0.0" -> {"1.0.0"}
    [] range = "^2.0.0" -> {"2.0.0"}
    [] OTHER            -> {range}

Published(pkg) == {f.version : f \in {g \in cdnData : g.pkg = pkg}}

\* version tokens are ordered as strings of one digit triples: "1.0.0" < "2.0.0"
VersionRank(v) == CASE v = "1.0.0" -> 1 [] v = "2.0.0" -> 2 [] OTHER -> 0

MaxVersion(vs) == CHOOSE v \in vs : \A w \in vs : VersionRank(w) <= VersionRank(v)

UrlPrefix == <<"https://unpkg.com/">>

NotFound(url, body) == [status |-> 404, url |-> url, content |-> Js(body)]

\* the paths that a requested path may be served from: itself, or for an
\* extension-less path the file or the directory index of that name
ServedPaths(path) ==
  IF fileExtension(path) # <<>> THEN {path}
  ELSE IF path = <<>> THEN {<<"index", ".js">>}
  ELSE {path \o <<".js">>, path \o <<"/", "index", ".js">>}

FileResponse(f) ==
  [status |-> 200,
   url |-> UrlPrefix \o LocKey(Loc(f.pkg, <<f.version>>, f.path)),
   content |-> f.content]

ServeFile(url, hits) ==
  IF hits = {}
    THEN NotFound(url, <<"Cannot find file">>)
    ELSE FileResponse(CHOOSE g \in hits : \A h \in hits : Len(g.path) <= Len(h.path))

FilesAt(pkg, v, paths) ==
  {f \in cdnData : f.pkg = pkg /\ f.version = v /\ f.path \in paths}

ServeVersion(url, parsed, cands) ==
  IF cands = {}
    THEN NotFound(url, <<"Cannot find package">>)
    ELSE ServeFile(url, FilesAt(parsed.pkg, MaxVersion(cands), ServedPaths(parsed.path)))

ServeParsed(url, parsed) ==
  IF parsed.defined /\ Len(parsed.version) = 1
    THEN ServeVersion(url, parsed,
                      Published(parsed.pkg) \cap VersionsOf(parsed.version[1]))
    ELSE NotFound(url, <<"Cannot find package">>)

\* The response to GET url: status, the final (redirected) url and the body.
ServerRespond(url) ==
  ServeParsed(url, IF StartsWith(url, UrlPrefix)
                     THEN parseNpmStyleSpecifier(SliceFrom(url, Len(UrlPrefix)))
                     ELSE Undefined)

---------------------------------------------------------------------------
(* CachingCdn (typescript-worker/cdn.ts).                                  *)


\* the version tokens the semver regular expression of isExactVersion accepts
ExactVersionTokens == {"1.0.0", "2.0.0"}

isExactVersion(v) == Len(v) = 1 /\ v[1] \in ExactVersionTokens

pkgVersion(loc) ==
  loc.pkg \o <<"@">> \o (IF loc.version = <<>> THEN <<"latest">> ELSE loc.version)

trimLeadingSlash(s) == IF Len(s) > 0 /\ s[1] = "/" THEN Tail(s) ELSE s

trimTrailingSlash(s) ==
  IF Len(s) > 0 /\ s[Len(s)] = "/" THEN SubSeq(s, 1, Len(s) - 1) ELSE s

pkgVersionPath(loc) ==
  trimTrailingSlash(pkgVersion(loc) \o <<"/">> \o trimLeadingSlash(loc.path))

\* _parseUnpkgUrl; undefined stands for its throw
parseUnpkgUrl(url) ==
  IF StartsWith(url, UrlPrefix)
    THEN parseNpmStyleSpecifier(SliceFrom(url, Len(UrlPrefix)))
    ELSE Undefined

\* `let exact ... location = {...location, version: resolved}`: the prelude
\* that _fetch and canonicalize share
ResolveFromVersionCache(vc, location) ==
  IF isExactVersion(location.version)
    THEN [exact |-> TRUE, location |-> location]
  ELSE IF pkgVersion(location) \in DOMAIN vc
    THEN [exact |-> TRUE,
          location |-> [location EXCEPT !.version = vc[pkgVersion(location)]]]
  ELSE [exact |-> FALSE, location |-> location]

NoContent == Js(<<>>)
NoLoc == Loc(<<>>, <<>>, <<>>)
NoPend == [url |-> <<>>, exact |-> FALSE, location |-> NoLoc]
NoCached == [url |-> <<>>, content |-> NoContent]

\* what a CachingCdn call gives its caller: a value or a thrown error
Outcome(ok, url, content, loc, error) ==
  [ok |-> ok, url |-> url, content |-> content, loc |-> loc, error |-> error]

NoOutcome == Outcome(FALSE, <<>>, NoContent, NoLoc, <<>>)

\* _fetch at `this._fileCache.get(pvp)`, r the resolved location
FetchLookupAt(fc, r, pvp) ==
  IF pvp \in DOMAIN fc
    THEN [hit |-> TRUE, cached |-> fc[pvp], pend |-> NoPend]
    ELSE [hit |-> FALSE, cached |-> NoCached,
          pend |-> [url |-> UrlPrefix \o pvp, exact |-> r.exact,
                    location |-> r.location]]

FetchLookupResolved(fc, r) == FetchLookupAt(fc, r, pkgVersionPath(r.location))

\* _fetch up to `await fetch(url)`: a cache hit, or the request to issue
FetchLookup(vc, fc, location) ==
  FetchLookupResolved(fc, ResolveFromVersionCache(vc, location))

FetchFailed(vc, fc, error) ==
  [ok |-> FALSE, vc |-> vc, fc |-> fc, result |-> NoCached, error |-> error]

\* a _fetch that returns its result and does not write the file cache
FetchStoreDropsFile(vc, fc, pvp, res) ==
  [ok |-> TRUE, vc |-> vc, fc |-> fc,
   result |-> [url |-> res.url, content |-> res.content], error |-> <<>>]

\* `this._fileCache.set(pvp, result)` and the return
FetchStore(vc, fc, pvp, res) ==
  [ok |-> TRUE, vc |-> vc,
   fc |-> (pvp :> [url |-> res.url, content |-> res.content]) @@ fc,
   result |-> [url |-> res.url, content |-> res.content], error |-> <<>>]

\* `if (!exact) { ... this._versionCache.set(...) ... }`
FetchStoreCanonical(vc, fc, pend, res, canonical) ==
  IF ~canonical.defined
    THEN FetchFailed(vc, fc, <<"Unexpected unpkg.com URL format:">> \o res.url)
    ELSE FetchStore((pkgVersion(pend.location) :> canonical.version) @@ vc, fc,
                    pkgVersionPath(canonical), res)

\* a _fetch that does not look at the status of the response
FetchSettleIgnoresStatus(vc, fc, pend, res) ==
  IF pend.exact
    THEN FetchStore(vc, fc, SliceFrom(pend.url, Len(UrlPrefix)), res)
    ELSE FetchStoreCanonical(vc, fc, pend, res, parseUnpkgUrl(res.url))

\* a _fetch that keeps the response of a failed request in the file cache
FetchSettleMemoizesFailure(vc, fc, pend, res) ==
  IF res.status # 200
    THEN [FetchFailed(vc, fc, <<"Unpkg", ToString(res.status), "error:">>
                                \o res.content.text)
            EXCEPT !.fc = (SliceFrom(pend.url, Len(UrlPrefix))
                             :> [url |-> res.url, content |-> res.content]) @@ fc]
  ELSE IF pend.exact
    THEN FetchStore(vc, fc, SliceFrom(pend.url, Len(UrlPrefix)), res)
  ELSE FetchStoreCanonical(vc, fc, pend, res, parseUnpkgUrl(res.url))

\* _fetch from the response on: the caches written and the result or throw
FetchSettle(vc, fc, pend, res) ==
  IF res.status # 200
    THEN FetchFailed(vc, fc, <<"Unpkg", ToString(res.status), "error:">>
                               \o res.content.text)
  ELSE IF pend.exact
    THEN FetchStore(vc, fc, SliceFrom(pend.url, Len(UrlPrefix)), res)
  ELSE FetchStoreCanonical(vc, fc, pend, res, parseUnpkgUrl(res.url))

\* canonicalize's `location = this._parseUnpkgUrl(url)`
CanonicalOutcome(result, p) ==
  IF p.defined
    THEN Outcome(TRUE, result.url, result.content, Loc(p.pkg, p.version, p.path), <<>>)
    ELSE Outcome(FALSE, result.url, NoContent, NoLoc,
                 <<"Unexpected unpkg.com URL format:">> \o result.url)

\* what fetch, canonicalize and fetchPackageJson make of _fetch's result
FinishCall(op, result) ==
  CASE op = "fetch" ->
         Outcome(TRUE, result.url, result.content, NoLoc, <<>>)
    [] op = "canonicalize" ->
         CanonicalOutcome(result, parseUnpkgUrl(result.url))
    [] op = "fetchPackageJson" ->
         IF result.content.valid
           THEN Outcome(TRUE, result.url, result.content, NoLoc, <<>>)
           ELSE Outcome(FALSE, result.url, NoContent, NoLoc,
                        <<"JSON error from">> \o result.url)

\* the location _fetch is called with by each public operation
FetchArg(op, location) ==
  IF op = "fetchPackageJson"
    THEN Loc(location.pkg, location.version, <<"package", ".json">>)
    ELSE location

Returned(outcome) == [done |-> TRUE, pend |-> NoPend, outcome |-> outcome]

\* a public operation at its call of _fetch
BeginFetch(op, l) ==
  IF l.hit
    THEN Returned(FinishCall(op, l.cached))
    ELSE [done |-> FALSE, pend |-> l.pend, outcome |-> NoOutcome]

\* a canonicalize that asks _fetch whatever the location is
BeginCanonicalizeAlwaysFetches(fc, r) ==
  BeginFetch("canonicalize", FetchLookupResolved(fc, r))

\* canonicalize, r its location resolved from the version cache
BeginCanonicalize(fc, r) ==
  IF r.exact /\ fileExtension(r.location.path) # <<>>
    THEN Returned(Outcome(TRUE, <<>>, NoContent, r.location, <<>>))
    ELSE BeginFetch("canonicalize", FetchLookupResolved(fc, r))

\* A public operation up to its first network wait: done with an outcome,
\* or waiting on the request pend.
CdnBegin(vc, fc, op, location) ==
  IF op = "canonicalize"
    THEN BeginCanonicalize(fc, ResolveFromVersionCache(vc, location))
    ELSE BeginFetch(op, FetchLookup(vc, fc, FetchArg(op, location)))

EndWith(op, res, s) ==
  [vc |-> s.vc, fc |-> s.fc, res |-> res,
   outcome |-> IF s.ok THEN FinishCall(op, s.result)
               ELSE Outcome(FALSE, res.url, NoContent, NoLoc, s.error)]

EndOn(vc, fc, op, pend, res) == EndWith(op, res, FetchSettle(vc, fc, pend, res))

\* The operation resumed with the response to its request.
CdnEnd(vc, fc, op, pend) == EndOn(vc, fc, op, pend, ServerRespond(pend.url))

\* bags as functions: one more / one fewer of x
BagAdd(b, x) ==
  IF x \in DOMAIN b THEN [b EXCEPT ![x] = @ + 1] ELSE (x :> 1) @@ b

BagRemove(b, x) ==
  IF b[x] = 1 THEN [y \in DOMAIN b \ {x} |-> b[y]] ELSE [b EXCEPT ![x] = @ - 1]

EmptyMap == [x \in {} |-> <<>>]

LogEntry(pend, res) == [url |-> pend.url, status |-> res.status, resUrl |-> res.url]

---------------------------------------------------------------------------
(* Callers of one CachingCdn instance: the CDN on its own.                 *)

Callers == {"c1", "c2"}

CdnOps == {"fetch", "canonicalize", "fetchPackageJson"}

\* the locations the callers ask for: one file of foo@2.0.0 named by no
\* version, by a range, by its exact version, without and with its extension;
\* and a package the CDN does not have
CallLocs ==
  { Loc(<<"foo">>, <<>>, <<"index", ".js">>),
    Loc(<<"foo">>, <<"^2.0.0">>, <<"index", ".js">>),
    Loc(<<"foo">>, <<"2.0.0">>, <<"index", ".js">>),
    Loc(<<"foo">>, <<"2.0.0">>, <<"index">>),
    Loc(<<"nope">>, <<>>, <<"index", ".js">>) }

IdleCaller == [st |-> "idle", op |-> "fetch", arg |-> NoLoc, pend |-> NoPend,
               outcome |-> NoOutcome]

InitCdn ==
  /\ versionCache = EmptyMap
  /\ fileCache = EmptyMap
  /\ inflight = EmptyMap
  /\ netLog = EmptyMap

NoDeferred == [resolved |-> FALSE, value |-> NotJson]

\* no transformer runs: the state of the variables of process()
InitNoTransformer ==
  /\ importMap = EmptyMap
  /\ input = <<>>
  /\ inPos = 1
  /\ processDone = TRUE
  /\ deferred = NoDeferred
  /\ handled = {}
  /\ tasks = <<>>
  /\ proms = <<>>
  /\ nsrc = 0
  /\ buffer = <<>>
  /\ out = <<>>
  /\ mergedDone = TRUE

\* no page is open: the state of the service worker as it is installed and
\* of a CodeSampleEditor without files
InitNoPage ==
  /\ fileAPIs = EmptyMap
  /\ deferredAPIs = <<>>
  /\ fetches = <<>>
  /\ postedMessages = 0
  /\ connected = FALSE
  /\ compiles = <<>>
  /\ compiledFilesPromise = 0
  /\ compiledFiles = 0
  /\ getFileCalls = <<>>

\* no TypesFetcher runs: the state of a TypesFetcher as it is constructed,
\* and the CDN of the bare-module tests
InitNoFetcher ==
  /\ cdnData = CdnFiles
  /\ InitNoPage
  /\ crawls = <<>>
  /\ entrypointTasks = <<>>
  /\ handledSpecifiers = {}
  /\ specifierToFetchResult = <<>>
  /\ rootDependencies = EmptyMap
  /\ dependencyGraph = EmptyMap
  /\ getFiles = [st |-> "idle", awaited |-> {}, i |-> 0, results |-> {}]

InitCallers ==
  /\ InitCdn
  /\ InitNoFetcher
  /\ callers = [c \in Callers |-> IdleCaller]
  /\ calls = 0
  /\ InitNoTransformer

CdnCallWith(c, op, location, b) ==
  /\ callers' = [callers EXCEPT ![c] =
                   [st |-> IF b.done THEN "done" ELSE "waiting", op |-> op,
                    arg |-> location, pend |-> b.pend, outcome |-> b.outcome]]
  /\ inflight' = IF b.done THEN inflight ELSE BagAdd(inflight, b.pend.url)

\* caller c calls fetch, canonicalize or fetchPackageJson: the call runs to
\* its return or to `await fetch(url)`
CdnCall(c, op, location) ==
  /\ callers[c].st = "idle"
  /\ calls < MaxCalls
  /\ calls' = calls + 1
  /\ CdnCallWith(c, op, location, CdnBegin(versionCache, fileCache, op, location))
  /\ UNCHANGED <<versionCache, fileCache, netLog, transformerVars, cdnData,
                 typesFetcherVars, pageVars>>

CdnReturnWith(c, e) ==
  /\ versionCache' = e.vc
  /\ fileCache' = e.fc
  /\ netLog' = BagAdd(netLog, LogEntry(callers[c].pend, e.res))
  /\ callers' = [callers EXCEPT ![c].st = "done", ![c].outcome = e.outcome]

\* the response to caller c's request arrives and its call returns or throws
CdnReturn(c) ==
  /\ callers[c].st = "waiting"
  /\ CdnReturnWith(c, CdnEnd(versionCache, fileCache, callers[c].op, callers[c].pend))
  /\ inflight' = BagRemove(inflight, callers[c].pend.url)
  /\ UNCHANGED <<calls, transformerVars, cdnData, typesFetcherVars, pageVars>>

\* caller c takes its result and is free to call again
CallerReset(c) ==
  /\ callers[c].st = "done"
  /\ callers' = [callers EXCEPT ![c] = IdleCaller]
  /\ UNCHANGED <<cdnVars, calls, transformerVars, cdnData, typesFetcherVars, pageVars>>

\* a call made while no other call is in flight
SeqCdnCall(c, op, location) ==
  /\ \A d \in Callers : callers[d].st # "waiting"
  /\ CdnCall(c, op, location)

NextCdn ==
  \E c \in Callers :
    \/ \E op \in CdnOps, location \in CallLocs : CdnCall(c, op, location)
    \/ CdnReturn(c)
    \/ CallerReset(c)

NextCdnSeq ==
  \E c \in Callers :
    \/ \E op \in CdnOps, location \in CallLocs : SeqCdnCall(c, op, location)
    \/ CdnReturn(c)
    \/ CallerReset(c)

\* concurrent callers of one CachingCdn
SpecCdn == InitCallers /\ [][NextCdn]_vars

\* calls made one after the other, each completed before the next
SpecCdnSeq == InitCallers /\ [][NextCdnSeq]_vars

---------------------------------------------------------------------------
(* Claims about CachingCdn.                                                *)

\* the number of answered requests that satisfy P
RECURSIVE BagTotal(_, _)
BagTotal(b, keys) ==
  IF keys = {} THEN 0
  ELSE (LET k == CHOOSE x \in keys : TRUE
        IN  b[k] + BagTotal(b, keys \ {k}))

OkEntries == {e \in DOMAIN netLog : e.status = 200}

\* C8: callers that request the same pkg@range or the same file while a
\* request for it is still unanswered share that request: no URL ever has
\* two network requests in flight at once.
C8_ConcurrentCallersShareOneRequest ==
  \A u \in DOMAIN inflight : inflight[u] <= 1

ExactWithExtension(location) ==
  isExactVersion(location.version) /\ fileExtension(location.path) # <<>>

\* C10: canonicalize of an exact-versioned location whose path has an
\* extension returns the location unchanged, issues no request and leaves
\* both caches unchanged.
C10_CanonicalizeExactIsIdentity ==
  [][\A c \in Callers :
       (/\ callers[c].st = "idle"
        /\ callers'[c].st # "idle"
        /\ callers'[c].op = "canonicalize"
        /\ ExactWithExtension(callers'[c].arg))
       => (/\ callers'[c].st = "done"
           /\ callers'[c].outcome.ok
           /\ callers'[c].outcome.loc = callers'[c].arg
           /\ UNCHANGED cdnVars)]_vars

\* canonicalize of such a location has returned, with a file in the cache
C10_Witness ==
  /\ fileCache # EmptyMap
  /\ \E c \in Callers :
       /\ callers[c].st = "done"
       /\ callers[c].op = "canonicalize"
       /\ ExactWithExtension(callers[c].arg)

\* the sequence part occurs in the sequence whole
Carries(whole, part) ==
  \E i \in 0..(Len(whole) - Len(part)) :
    SubSeq(whole, i + 1, i + Len(part)) = part

\* C11: a fetch whose response has a status other than 200 fails with an
\* error that carries the status and the body of the response; it returns
\* no content and caches nothing.
C11_FetchFailsOnStatus ==
  [][\A c \in Callers :
       (/\ callers[c].st = "waiting"
        /\ callers'[c].st = "done"
        /\ callers[c].op = "fetch"
        /\ ServerRespond(callers[c].pend.url).status # 200)
       => (/\ ~callers'[c].outcome.ok
           /\ callers'[c].outcome.content = NoContent
           /\ Carries(callers'[c].outcome.error,
                      <<ToString(ServerRespond(callers[c].pend.url).status)>>)
           /\ Carries(callers'[c].outcome.error,
                      ServerRespond(callers[c].pend.url).content.text)
           /\ fileCache' = fileCache
           /\ versionCache' = versionCache)]_vars

\* a fetch has failed on a 404 of the CDN
C11_Witness ==
  \E c \in Callers :
    /\ callers[c].st = "done"
    /\ callers[c].op = "fetch"
    /\ callers[c].pend # NoPend
    /\ ~callers[c].outcome.ok
    /\ \E e \in DOMAIN netLog : e.url = callers[c].pend.url /\ e.status = 404

---------------------------------------------------------------------------
(* More of typescript-worker/util.ts, and the lexer.                       *)

Min(a, b) == IF a <= b THEN a ELSE b

MaxOf(S) == CHOOSE x \in S : \A y \in S : y <= x

\* 'url' for a specifier with a scheme, 'relative' for ./ and ../, else 'bare'
classifySpecifier(s) ==
  IF Len(s) > 0 /\ s[1] \in {"https:", "http:"} THEN "url"
  ELSE IF Len(s) > 0 /\ s[1] \in {"./", "../"} THEN "relative"
  ELSE "bare"

SlashIdx(s) == {i \in 1..Len(s) : s[i] = "/"}

\* the directory of a file name, with its trailing "/"; <<>> at the root
DirOf(name) == SubSeq(name, 1, MaxOf(SlashIdx(name) \cup {0}))

ParentDir(dir) ==
  IF dir = <<>> THEN <<>> ELSE DirOf(SubSeq(dir, 1, Len(dir) - 1))

RECURSIVE ResolveIn(_, _)
ResolveIn(dir, rel) ==
  IF rel = <<>> THEN dir
  ELSE IF rel[1] = "./" THEN ResolveIn(dir, Tail(rel))
  ELSE IF rel[1] = "../" THEN ResolveIn(ParentDir(dir), Tail(rel))
  ELSE dir \o rel

\* resolveUrlPath(a, b): the path of b resolved against the file a, with its
\* leading "/"
resolveUrlPath(referrer, specifier) ==
  <<"/">> \o ResolveIn(DirOf(referrer), specifier)

\* the length of the longest run of leading directories that from and to share
CommonDir(from, to) ==
  MaxOf({0} \cup {i \in SlashIdx(from) :
                    i <= Len(to) /\ SubSeq(from, 1, i) = SubSeq(to, 1, i)})

Ups(n) == IF n = 0 THEN <<"./">> ELSE [i \in 1..n |-> "../"]

RelativeFrom(from, to, k) ==
  Ups(Cardinality({i \in SlashIdx(from) : i > k})) \o SliceFrom(to, k)

\* relativeUrlPath(from, to): the relative URL that names the file to when
\* resolved against the file from
relativeUrlPath(from, to) == RelativeFrom(from, to, CommonDir(from, to))

\* charToLineAndChar(text, offset), offset 0-based
charToLineAndChar(text, offset) ==
  [line |-> Cardinality({i \in 1..Min(offset, Len(text)) : text[i] = "\n"}),
   character |->
     offset - MaxOf({0} \cup {i \in 1..Min(offset, Len(text)) : text[i] = "\n"})]

\* the token that es-module-lexer cannot parse
SyntaxError == "<syntax error>"

LexFails(text) == \E i \in 1..Len(text) : text[i] = SyntaxError

\* the 0-based offset that the lexer's error message names
LexErrorAt(text) == (CHOOSE i \in 1..Len(text) : text[i] = SyntaxError) - 1

\* one static import whose opening quote is token i + 1 and closing quote
\* token j: s and e are the 0-based offsets of the specifier, quotes excluded
Occurrence(text, i, j) ==
  [s |-> i + 1, e |-> j - 1, n |-> SubSeq(text, i + 2, j - 1), d |-> 0 - 1]

ClosingQuote(text, i) ==
  CHOOSE j \in (i + 2)..Len(text) :
    text[j] = "\"" /\ \A q \in (i + 2)..(j - 1) : text[q] # "\""

RECURSIVE LexFrom(_, _, _)
LexFrom(text, i, acc) ==
  IF i > Len(text) THEN acc
  ELSE IF /\ text[i] = "import"
          /\ i + 1 <= Len(text)
          /\ text[i + 1] = "\""
          /\ \E j \in (i + 2)..Len(text) : text[j] = "\""
    THEN LexFrom(text, ClosingQuote(text, i) + 1,
                 Append(acc, Occurrence(text, i, ClosingQuote(text, i))))
  ELSE LexFrom(text, i + 1, acc)

\* esModuleLexer.parse(js)[0]: the import occurrences in source order
Lex(text) == LexFrom(text, 1, <<>>)

---------------------------------------------------------------------------
(* BareModuleTransformer (typescript-worker/bare-module-transformer.ts).   *)
(* The code between two suspension points runs as one step.  A step takes  *)
(* the state as the record w and gives the state it leaves.                *)

World ==
  [vc |-> versionCache, fc |-> fileCache, inflight |-> inflight,
   netLog |-> netLog, handled |-> handled, tasks |-> tasks, proms |-> proms,
   nsrc |-> nsrc, buffer |-> buffer, deferred |-> deferred]

SetWorld(w) ==
  /\ versionCache' = w.vc
  /\ fileCache' = w.fc
  /\ inflight' = w.inflight
  /\ netLog' = w.netLog
  /\ handled' = w.handled
  /\ tasks' = w.tasks
  /\ proms' = w.proms
  /\ nsrc' = w.nsrc
  /\ buffer' = w.buffer
  /\ deferred' = w.deferred

\* What an awaiting piece of code waits for: the response to a network
\* request ("net"), a value that is there already ("ready"), or the Deferred
\* of the project's package.json ("deferred").
NoWait == [kind |-> "none", op |-> "fetch", pend |-> NoPend, outcome |-> NoOutcome]

WaitOf(op, b) ==
  [kind |-> IF b.done THEN "ready" ELSE "net", op |-> op, pend |-> b.pend,
   outcome |-> b.outcome]

ReadyWith(op, content) ==
  [kind |-> "ready", op |-> op, pend |-> NoPend,
   outcome |-> Outcome(TRUE, <<>>, content, NoLoc, <<>>)]

\* `let packageJson = null` of _handleDependency
PjNull == [state |-> "null", value |-> NotJson]

NodeModules == <<"node_modules", "/">>

\* a dependency file named without its version
DepTaskUnversioned(location, b) ==
  [kind |-> "dep", st |-> "fetch",
   name |-> NodeModules \o location.pkg \o <<"/">> \o location.path,
   content |-> NoContent, js |-> <<>>, transforms |-> <<>>, i |-> 0,
   loc |-> location, wait |-> WaitOf("fetch", b), pj |-> PjNull]

\* the producer that merged.add(this._handleDependency(location, merged))
\* leaves at `await this._cdn.fetch(location)`
DepTask(location, b) ==
  [kind |-> "dep", st |-> "fetch", name |-> NodeModules \o LocKey(location),
   content |-> NoContent, js |-> <<>>, transforms |-> <<>>, i |-> 0,
   loc |-> location, wait |-> WaitOf("fetch", b), pj |-> PjNull]

\* the producer that merged.add(this._transformBareModuleSpecifiers(result,
\* ...)) leaves at `await esModuleLexer.init`
FileTask(name, content) ==
  [kind |-> "file", st |-> "init", name |-> name, content |-> content,
   js |-> content.text, transforms |-> <<>>, i |-> 0, loc |-> NoLoc,
   wait |-> NoWait, pj |-> PjNull]

NewProm(tid, specifier, referrer, gpj) ==
  [task |-> tid, spec |-> specifier, referrer |-> referrer, gpj |-> gpj,
   st |-> "start", loc |-> NoLoc, wait |-> NoWait, value |-> <<>>,
   error |-> <<>>]

R(w, p) == [w |-> w, p |-> p]

Issue(w, b) ==
  IF b.done THEN w ELSE [w EXCEPT !.inflight = BagAdd(@, b.pend.url)]

Resolve(w, p, value) ==
  R(w, [p EXCEPT !.st = "resolved", !.wait = NoWait, !.value = value])

Reject(w, p, error) ==
  R(w, [p EXCEPT !.st = "rejected", !.wait = NoWait, !.error = error])

AwaitCdn(w, p, st, op, b) ==
  R(Issue(w, b), [p EXCEPT !.st = st, !.wait = WaitOf(op, b)])

\* `await this._cdn.<op>(location)`
CallCdn(w, p, st, op, location) ==
  AwaitCdn(w, p, st, op, CdnBegin(w.vc, w.fc, op, location))

\* a _handleDependency that does not add its key to _alreadyHandled
HandleDependencyFetchForgetsKey(w, location, b) ==
  [Issue(w, b) EXCEPT !.tasks = Append(@, DepTask(location, b)),
                      !.nsrc = @ + 1]

\* _handleDependency from `this._alreadyHandled.add(key)` to its await
HandleDependencyFetch(w, location, b) ==
  [Issue(w, b) EXCEPT !.handled = @ \cup {LocKey(location)},
                      !.tasks = Append(@, DepTask(location, b)),
                      !.nsrc = @ + 1]

\* a _handleDependency that does not look its key up in _alreadyHandled
HandleDependencyAlways(w, location) ==
  [Issue(w, CdnBegin(w.vc, w.fc, "fetch", location))
     EXCEPT !.handled = @ \cup {LocKey(location)},
            !.tasks = Append(@, DepTask(location,
                                        CdnBegin(w.vc, w.fc, "fetch", location))),
            !.nsrc = @ + 1]

\* merged.add(this._handleDependency(location, merged)): the generator runs
\* to its first await, or returns at once for a key already handled
HandleDependency(w, location) ==
  IF LocKey(location) \in w.handled
    THEN w
    ELSE HandleDependencyFetch(w, location, CdnBegin(w.vc, w.fc, "fetch", location))

\* _transformBareSpecifier, lines 217-220
Final(w, p, location) ==
  R(HandleDependency(w, location),
    [p EXCEPT !.st = "resolved", !.wait = NoWait, !.loc = location,
              !.value = relativeUrlPath(p.referrer, NodeModules \o LocKey(location))])

\* _transformBareSpecifier, lines 214-216
AfterPath(w, p, location) ==
  IF fileExtension(location.path) = <<>> \/ ~isExactVersion(location.version)
    THEN CallCdn(w, [p EXCEPT !.loc = location], "canon", "canonicalize", location)
    ELSE Final(w, p, location)

\* _transformBareSpecifier, lines 210-213
AfterVersion(w, p, location) ==
  IF location.path = <<>>
    THEN CallCdn(w, [p EXCEPT !.loc = location], "main", "fetchPackageJson", location)
    ELSE AfterPath(w, p, location)

\* a getPackageJson that is the one of the project for every file
GetPackageJsonOfProject(w, p) ==
  IF p.gpj = "none"
    THEN R(w, [p EXCEPT !.st = "pj", !.wait = ReadyWith("getPackageJson", NotJson)])
    ELSE R(w, [p EXCEPT !.st = "pj", !.wait = [NoWait EXCEPT !.kind = "deferred"]])

\* `await getPackageJson()`: the Deferred of _process for a project file,
\* the closure of _handleDependency for a dependency file, and
\* `async () => undefined` for a relative specifier
GetPackageJson(w, p) ==
  CASE p.gpj = "project" ->
         R(w, [p EXCEPT !.st = "pj", !.wait = [NoWait EXCEPT !.kind = "deferred"]])
    [] p.gpj = "none" ->
         R(w, [p EXCEPT !.st = "pj", !.wait = ReadyWith("getPackageJson", NotJson)])
    [] p.gpj = "dep" ->
         IF w.tasks[p.task].pj.state = "null"
           THEN CallCdn(w, p, "pj", "fetchPackageJson", w.tasks[p.task].loc)
           ELSE R(w, [p EXCEPT !.st = "pj",
                        !.wait = ReadyWith("getPackageJson", w.tasks[p.task].pj.value)])

\* _transformBareSpecifier, lines 202-209; parsed is the specifier parsed
TransformBare(w, p, specifier, parsed) ==
  IF ~parsed.defined
    THEN Reject(w, p, <<"Invalid specifier:">> \o specifier)
  ELSE IF parsed.version = <<>>
    THEN GetPackageJson(w, [p EXCEPT !.loc = Loc(parsed.pkg, parsed.version, parsed.path)])
  ELSE AfterVersion(w, p, Loc(parsed.pkg, parsed.version, parsed.path))

\* _transformSpecifier, lines 188-193
RelativeWithExtension(w, p, parsed) ==
  IF ~parsed.defined
    THEN Reject(w, p, <<"wtf">>)
    ELSE R(HandleDependency(w, Loc(parsed.pkg, parsed.version, parsed.path)),
           [p EXCEPT !.st = "resolved", !.wait = NoWait,
                     !.loc = Loc(parsed.pkg, parsed.version, parsed.path),
                     !.value = p.spec])

\* a _transformSpecifier that resolves a relative specifier of a dependency
\* file in whatever version of the package the CDN calls the latest
TransformRelativeLatest(w, p, bare) ==
  TransformBare(w, [p EXCEPT !.gpj = "none"], bare,
                [parseNpmStyleSpecifier(bare) EXCEPT !.version = <<>>])

\* _transformSpecifier, lines 169-194; bare is absolute.slice('/node_modules/'.length)
TransformRelative(w, p, bare) ==
  IF fileExtension(p.spec) = <<>>
    THEN TransformBare(w, [p EXCEPT !.gpj = "none"], bare, parseNpmStyleSpecifier(bare))
    ELSE RelativeWithExtension(w, p, parseNpmStyleSpecifier(bare))

\* _transformSpecifier up to its first await
TransformSpecifier(w, p) ==
  CASE classifySpecifier(p.spec) = "url" -> Resolve(w, p, p.spec)
    [] classifySpecifier(p.spec) = "bare" ->
         TransformBare(w, p, p.spec, parseNpmStyleSpecifier(p.spec))
    [] OTHER ->
         IF ~StartsWith(p.referrer, NodeModules)
           THEN Resolve(w, p, p.spec)
           ELSE TransformRelative(w, p,
                  SliceFrom(resolveUrlPath(p.referrer, p.spec), Len(NodeModules) + 1))

\* a resolution that does not read the package.json
DeclaredRangeLatest(pj, pkg) == <<"latest">>

\* `?.dependencies?.[location.pkg] ?? 'latest'`
DeclaredRange(pj, pkg) ==
  IF pj.valid /\ pkg \in DOMAIN pj.dependencies
    THEN pj.dependencies[pkg]
    ELSE <<"latest">>

\* `packageJson.module ?? packageJson.main ?? 'index.js'`
MainOf(pj) ==
  IF pj.module # <<>> THEN pj.module
  ELSE IF pj.main # <<>> THEN pj.main
  ELSE <<"index", ".js">>

\* the closure getPackageJson of _handleDependency assigns its packageJson
AssignPackageJson(w, p, outcome) ==
  IF p.wait.op = "fetchPackageJson"
    THEN [w EXCEPT !.tasks[p.task].pj =
            [state |-> "set",
             value |-> IF outcome.ok THEN outcome.content ELSE NotJson]]
    ELSE w

\* the value that `await getPackageJson()` gives
PackageJsonOf(outcome) == IF outcome.ok THEN outcome.content ELSE NotJson

\* a newSpecifierPromise resumed with the outcome of what it awaited
Continue(w, p, outcome) ==
  CASE p.st = "pj" ->
         AfterVersion(AssignPackageJson(w, p, outcome), [p EXCEPT !.wait = NoWait],
                      [p.loc EXCEPT !.version =
                         DeclaredRange(PackageJsonOf(outcome), p.loc.pkg)])
    [] p.st = "main" ->
         IF outcome.ok
           THEN AfterPath(w, [p EXCEPT !.wait = NoWait],
                          [p.loc EXCEPT !.path = MainOf(outcome.content)])
           ELSE Reject(w, p, outcome.error)
    [] p.st = "canon" ->
         IF outcome.ok
           THEN Final(w, [p EXCEPT !.wait = NoWait], outcome.loc)
           ELSE Reject(w, p, outcome.error)

\* the state after the response e to the request of wait has been handled
Answered(w, wait, e) ==
  [w EXCEPT !.vc = e.vc, !.fc = e.fc,
            !.inflight = BagRemove(@, wait.pend.url),
            !.netLog = BagAdd(@, LogEntry(wait.pend, e.res))]

ContinueAnswered(w, p, e) == Continue(Answered(w, p.wait, e), p, e.outcome)

PromStep(w, p) ==
  CASE p.wait.kind = "net" ->
         ContinueAnswered(w, p, CdnEnd(w.vc, w.fc, p.wait.op, p.wait.pend))
    [] p.wait.kind = "ready" -> Continue(w, p, p.wait.outcome)
    [] p.wait.kind = "deferred" ->
         Continue(w, p, Outcome(TRUE, <<>>, w.deferred.value, NoLoc, <<>>))

StoreProm(r, pid) == [r.w EXCEPT !.proms[pid] = r.p]

Settled(p) == p.st \in {"resolved", "rejected"}

\* BuildOutput: a file or a diagnostic
NoPosition == [line |-> 0, character |-> 0]

NoRange == [start |-> NoPosition, end |-> NoPosition]

FileOut(name, content) ==
  [kind |-> "file", name |-> name, content |-> content, message |-> <<>>,
   range |-> NoRange]

Diagnostic(filename, message, start, end) ==
  [kind |-> "diagnostic", name |-> filename, content |-> NoContent,
   message |-> message, range |-> [start |-> start, end |-> end]]

\* _makeDiagnostic for the lexer's error at position pos
makeDiagnostic(filename, pos) ==
  Diagnostic(filename, <<"es-module-lexer error:", SyntaxError>>, pos,
             [pos EXCEPT !.character = @ + 1])

Yield(w, item) == [w EXCEPT !.buffer = Append(@, item)]

\* the generator returns: merged loses one producer
Return(w, tid) == [w EXCEPT !.tasks[tid].st = "done", !.nsrc = @ - 1]

\* `file.file.content = js; yield file;` and the return that follows
FinishTask(w, tid, t) ==
  Return(Yield(w, FileOut(t.name, [t.content EXCEPT !.text = t.js])), tid)

\* `yield file; yield diagnostic; return;` of a file the lexer rejects
FailParse(w, tid, t) ==
  Return(Yield(Yield(w, FileOut(t.name, t.content)),
               makeDiagnostic(t.name, charToLineAndChar(t.js, LexErrorAt(t.js)))),
         tid)

GetterOf(t) == IF t.kind = "file" THEN "project" ELSE "dep"

\* transforms.push({info, newSpecifierPromise}) once _transformSpecifier has
\* run to its first await
PushTransform(r, tid, occ) ==
  [r.w EXCEPT !.proms = Append(@, r.p),
              !.tasks[tid].transforms =
                 Append(@, [info |-> occ, prom |-> Len(r.w.proms) + 1])]

StartProm(w, tid, occ) ==
  PushTransform(TransformSpecifier(w, NewProm(tid, occ.n, w.tasks[tid].name,
                                              GetterOf(w.tasks[tid]))),
                tid, occ)

\* the first loop of _transformBareModuleSpecifiers: i from the last
\* occurrence down to the first
RECURSIVE StartProms(_, _, _, _)
StartProms(w, tid, occs, i) ==
  IF i = 0 THEN w ELSE StartProms(StartProm(w, tid, occs[i]), tid, occs, i - 1)

\* the text with [start, end) replaced
Splice(js, start, end, replacement) ==
  Substring(js, 0, start) \o replacement \o SliceFrom(js, end)

Quoted(info, newSpecifier) ==
  IF info.d # 0 - 1 THEN <<"'">> \o newSpecifier \o <<"'">> ELSE newSpecifier

CouldNotResolve(t, info, p) ==
  Diagnostic(t.name,
             <<"Could not resolve module">> \o info.n \o <<":">> \o p.error,
             charToLineAndChar(t.js, info.s), charToLineAndChar(t.js, info.e))

\* one iteration of the second loop, for a promise that has settled
ApplyTransform(w, tid, t, info, p) ==
  IF p.st = "rejected"
    THEN [Yield(w, CouldNotResolve(t, info, p)) EXCEPT !.tasks[tid].i = @ - 1]
  ELSE IF p.value = info.n
    THEN [w EXCEPT !.tasks[tid].i = @ - 1]
  ELSE [w EXCEPT !.tasks[tid].i = @ - 1,
                 !.tasks[tid].js = Splice(@, info.s, info.e, Quoted(info, p.value))]

\* the index in transforms that loop counter i (from Len down to 1) reads
Awaited(t) == t.transforms[t.i]

\* the second loop of _transformBareModuleSpecifiers, run until it awaits a
\* promise that has not settled or until the generator returns
RECURSIVE Advance(_, _)
Advance(w, tid) ==
  IF w.tasks[tid].i = 0 THEN FinishTask(w, tid, w.tasks[tid])
  ELSE IF ~Settled(w.proms[Awaited(w.tasks[tid]).prom]) THEN w
  ELSE Advance(ApplyTransform(w, tid, w.tasks[tid], Awaited(w.tasks[tid]).info,
                              w.proms[Awaited(w.tasks[tid]).prom]), tid)

BeginAwait(w, tid) ==
  [w EXCEPT !.tasks[tid].st = "await",
            !.tasks[tid].i = Len(w.tasks[tid].transforms)]

\* _transformBareModuleSpecifiers after `await esModuleLexer.init`, up to
\* its next await
TaskStart(w, tid) ==
  IF LexFails(w.tasks[tid].js)
    THEN FailParse(w, tid, w.tasks[tid])
    ELSE BeginAwait(StartProms(w, tid, Lex(w.tasks[tid].js),
                               Len(Lex(w.tasks[tid].js))), tid)

\* a _handleDependency that never returns once its fetch has failed
FetchedFailureHangs(w, tid, outcome) ==
  IF outcome.ok
    THEN [w EXCEPT !.tasks[tid].st = "init",
                   !.tasks[tid].content = outcome.content,
                   !.tasks[tid].js = outcome.content.text,
                   !.tasks[tid].wait = NoWait]
    ELSE [w EXCEPT !.tasks[tid].wait = NoWait, !.tasks[tid].st = "failed"]

\* _handleDependency after `await this._cdn.fetch(location)`
Fetched(w, tid, outcome) ==
  IF outcome.ok
    THEN [w EXCEPT !.tasks[tid].st = "init",
                   !.tasks[tid].content = outcome.content,
                   !.tasks[tid].js = outcome.content.text,
                   !.tasks[tid].wait = NoWait]
    ELSE [Return(w, tid) EXCEPT !.tasks[tid].wait = NoWait,
                                !.tasks[tid].st = "failed"]

FetchedAnswered(w, tid, wait, e) == Fetched(Answered(w, wait, e), tid, e.outcome)

TaskFetchStep(w, tid, t) ==
  IF t.wait.kind = "net"
    THEN FetchedAnswered(w, tid, t.wait, CdnEnd(w.vc, w.fc, "fetch", t.wait.pend))
    ELSE Fetched(w, tid, t.wait.outcome)

EndsWithJs(name) == Len(name) > 0 /\ name[Len(name)] = ".js"

PackageJsonName == <<"package", ".json">>

\* Deferred.resolve: the promise keeps the first value it is resolved with
ResolveDeferred(w, value) ==
  IF w.deferred.resolved
    THEN w
    ELSE [w EXCEPT !.deferred = [resolved |-> TRUE, value |-> value]]

\* a _process that adds the producer of a file without merged counting it
ProcessResultUncounted(w, result) ==
  IF result.kind = "file" /\ EndsWithJs(result.name)
    THEN [w EXCEPT !.tasks = Append(@, FileTask(result.name, result.content))]
  ELSE IF /\ result.kind = "file"
          /\ result.name = PackageJsonName
          /\ result.content.valid
    THEN ResolveDeferred(Yield(w, result), result.content)
  ELSE Yield(w, result)

\* the body of `for await (const result of results)` in _process
ProcessResult(w, result) ==
  IF result.kind = "file" /\ EndsWithJs(result.name)
    THEN [w EXCEPT !.tasks = Append(@, FileTask(result.name, result.content)),
                   !.nsrc = @ + 1]
  ELSE IF /\ result.kind = "file"
          /\ result.name = PackageJsonName
          /\ result.content.valid
    THEN ResolveDeferred(Yield(w, result), result.content)
  ELSE Yield(w, result)

\* a _process that returns with its Deferred left unresolved
ProcessReturnUnresolved(w) == [w EXCEPT !.nsrc = @ - 1]

\* a _process that resolves its Deferred with undefined after its loop,
\* whatever the loop did
ProcessReturnAbsent(w) ==
  [w EXCEPT !.deferred = [resolved |-> TRUE, value |-> NotJson], !.nsrc = @ - 1]

\* _process after its loop
ProcessReturn(w) == [ResolveDeferred(w, NotJson) EXCEPT !.nsrc = @ - 1]

---------------------------------------------------------------------------
(* The projects that process() is run on.                                  *)

\* the specifiers that a project file may import
SpecifierPool ==
  { <<"foo">>,
    <<"foo", "@", "1.0.0", "/", "gone", ".js">>,
    <<"nope">>,
    <<"./", "local", ".js">>,
    <<"@", "s">> }

RECURSIVE JoinImports(_)
JoinImports(ss) ==
  IF ss = <<>> THEN <<>>
  ELSE Import(Head(ss)) \o (IF Len(ss) > 1 THEN <<"\n">> ELSE <<>>)
         \o JoinImports(Tail(ss))

ProjectTexts ==
  {JoinImports(ss) : ss \in UNION {[1..n -> SpecifierPool] : n \in 0..MaxOcc}}

ProjectPackageJson ==
  FileOut(PackageJsonName, Json([p \in {<<"foo">>} |-> <<"^1.0.0">>], <<>>, <<>>))

InvalidPackageJson == FileOut(PackageJsonName, NotJson)

IndexJs(text) == FileOut(<<"index", ".js">>, Js(text))

Inputs ==
  UNION { { <<IndexJs(text)>>,
            <<ProjectPackageJson, IndexJs(text)>>,
            <<IndexJs(text), ProjectPackageJson>>,
            <<InvalidPackageJson, IndexJs(text)>> } : text \in ProjectTexts }

\* build outputs that are no JS files: a file of another type and a
\* diagnostic of the build step before this one
Stylesheet == FileOut(<<"style", ".css">>, Js(<<"body", "{", "}">>))

UpstreamDiagnostic ==
  Diagnostic(<<"index", ".ts">>, <<"Type error">>, NoPosition,
             [NoPosition EXCEPT !.character = 1])

\* the projects with such outputs before and after their one JS file
OtherInputs ==
  { <<Stylesheet, IndexJs(Import(s)), UpstreamDiagnostic, ProjectPackageJson>> :
      s \in SpecifierPool }

\* the projects whose one file imports a URL: alone, beside a bare specifier,
\* and between two bare specifiers
UrlInputs ==
  { <<IndexJs(JoinImports(ss))>> :
      ss \in { <<UrlSpecifier>>, <<UrlSpecifier, <<"foo">> >>,
               << <<"foo">>, UrlSpecifier, <<"foo">> >> } }

\* a package.json of the project that declares other ranges than the
\* packages of the CDN do
OtherRangesPackageJson ==
  FileOut(PackageJsonName,
          Json([p \in {<<"foo">>, <<"bar">>} |->
                  IF p = <<"foo">> THEN <<"^1.0.0">> ELSE <<"^2.0.0">>],
               <<>>, <<>>))

\* the projects that import a package whose file imports "foo": qux@1.0.0
\* has no package.json, the one of qux@2.0.0 is not JSON, the one of quz
\* declares no dependencies
DependencyInputs ==
  { <<OtherRangesPackageJson, IndexJs(Import(s))>> :
      s \in { <<"qux", "@", "1.0.0", "/", "index", ".js">>,
              <<"qux", "@", "2.0.0", "/", "index", ".js">>,
              <<"quz">> } }

\* the test 'use import map': foo is mapped to a URL, and the CDN has foo
FooToUrl == [s \in {<<"foo">>} |-> <<"http:", "//", "example.com", "/", "foo">>]

\* the projects that are built with an import map: one file, one import
MappedInputs == {<<IndexJs(Import(s))>> : s \in SpecifierPool}

\* `new BareModuleTransformer(moduleResolver, cdn)` and the call of process
Constructed ==
  \/ importMap = EmptyMap /\ input \in Inputs \cup OtherInputs \cup UrlInputs \cup DependencyInputs
  \/ importMap = FooToUrl /\ input \in MappedInputs

InitTransformer ==
  /\ InitCdn
  /\ callers = [c \in Callers |-> IdleCaller]
  /\ calls = 0
  /\ InitNoFetcher
  /\ Constructed
  /\ inPos = 1
  /\ processDone = FALSE
  /\ deferred = NoDeferred
  /\ handled = {}
  /\ tasks = <<>>
  /\ proms = <<>>
  /\ nsrc = 1
  /\ buffer = <<>>
  /\ out = <<>>
  /\ mergedDone = FALSE

UnchangedByProducers ==
  UNCHANGED <<importMap, input, out, mergedDone, callerVars, cdnData, typesFetcherVars, pageVars>>

CanProcessNext == ~processDone /\ inPos <= Len(input)

\* a _process that passes on no build output
ProcessNextDropsOthers ==
  /\ CanProcessNext
  /\ SetWorld(IF input[inPos].kind = "file" /\ EndsWithJs(input[inPos].name)
                THEN ProcessResult(World, input[inPos])
                ELSE World)
  /\ inPos' = inPos + 1
  /\ UNCHANGED processDone
  /\ UnchangedByProducers

\* _process takes the next build output
ProcessNext ==
  /\ CanProcessNext
  /\ SetWorld(ProcessResult(World, input[inPos]))
  /\ inPos' = inPos + 1
  /\ UNCHANGED processDone
  /\ UnchangedByProducers

CanProcessEnd == ~processDone /\ inPos > Len(input)

\* _process finds its input at an end
ProcessEnd ==
  /\ CanProcessEnd
  /\ SetWorld(ProcessReturn(World))
  /\ processDone' = TRUE
  /\ UNCHANGED inPos
  /\ UnchangedByProducers

\* _transformBareModuleSpecifiers resumes after `await esModuleLexer.init`
TaskInit(tid) ==
  /\ tasks[tid].st = "init"
  /\ SetWorld(TaskStart(World, tid))
  /\ UNCHANGED <<inPos, processDone>>
  /\ UnchangedByProducers

\* _handleDependency resumes after `await this._cdn.fetch(location)`
TaskFetched(tid) ==
  /\ tasks[tid].st = "fetch"
  /\ SetWorld(TaskFetchStep(World, tid, tasks[tid]))
  /\ UNCHANGED <<inPos, processDone>>
  /\ UnchangedByProducers

\* _transformBareModuleSpecifiers resumes after `await newSpecifierPromise`
CanTaskAdvance(tid) ==
  /\ tasks[tid].st = "await"
  /\ IF tasks[tid].i = 0 THEN TRUE ELSE Settled(proms[Awaited(tasks[tid]).prom])

TaskAdvance(tid) ==
  /\ CanTaskAdvance(tid)
  /\ SetWorld(Advance(World, tid))
  /\ UNCHANGED <<inPos, processDone>>
  /\ UnchangedByProducers

Resumable(p) ==
  IF p.wait.kind = "deferred"
    THEN deferred.resolved
    ELSE p.wait.kind \in {"net", "ready"}

\* _transformSpecifier / _transformBareSpecifier resumes after an await
PromResume(pid) ==
  /\ Resumable(proms[pid])
  /\ SetWorld(StoreProm(PromStep(World, proms[pid]), pid))
  /\ UNCHANGED <<inPos, processDone>>
  /\ UnchangedByProducers

CanEmit == buffer # <<>>

\* a merger that hands out the newest item first
EmitNewest ==
  /\ CanEmit
  /\ out' = Append(out, buffer[Len(buffer)])
  /\ buffer' = SubSeq(buffer, 1, Len(buffer) - 1)
  /\ UNCHANGED <<cdnVars, callerVars, importMap, input, inPos, processDone, deferred,
                 handled, tasks, proms, nsrc, mergedDone, cdnData, typesFetcherVars, pageVars>>

\* the consumer of process() takes the next item
Emit ==
  /\ CanEmit
  /\ out' = Append(out, Head(buffer))
  /\ buffer' = Tail(buffer)
  /\ UNCHANGED <<cdnVars, callerVars, importMap, input, inPos, processDone, deferred,
                 handled, tasks, proms, nsrc, mergedDone, cdnData, typesFetcherVars, pageVars>>

CanMergedEnd == ~mergedDone /\ nsrc = 0 /\ buffer = <<>>

\* merged ends: every producer has returned and every item has been taken
MergedEnd ==
  /\ CanMergedEnd
  /\ mergedDone' = TRUE
  /\ UNCHANGED <<cdnVars, callerVars, importMap, input, inPos, processDone, deferred,
                 handled, tasks, proms, nsrc, buffer, out, cdnData, typesFetcherVars, pageVars>>

NextTransformer ==
  \/ ProcessNext
  \/ ProcessEnd
  \/ \E tid \in DOMAIN tasks : TaskInit(tid)
  \/ \E tid \in DOMAIN tasks : TaskFetched(tid)
  \/ \E tid \in DOMAIN tasks : TaskAdvance(tid)
  \/ \E pid \in DOMAIN proms : PromResume(pid)
  \/ Emit
  \/ MergedEnd

SpecTransformer == InitTransformer /\ [][NextTransformer]_vars

\* some continuation is ready to run: the guards of the steps of
\* NextTransformer, each of which assigns every variable once its guard holds
Runnable ==
  \/ CanProcessNext
  \/ CanProcessEnd
  \/ \E tid \in DOMAIN tasks : tasks[tid].st \in {"init", "fetch"}
  \/ \E tid \in DOMAIN tasks : CanTaskAdvance(tid)
  \/ \E pid \in DOMAIN proms : Resumable(proms[pid])
  \/ CanEmit
  \/ CanMergedEnd

---------------------------------------------------------------------------
(* Claims about BareModuleTransformer.process.                             *)

\* every item that a producer has yielded so far, in the order of the yields
Produced == out \o buffer

DepName(k) == NodeModules \o k

FilesNamed(items, name) ==
  {i \in DOMAIN items : items[i].kind = "file" /\ items[i].name = name}

OnCdn(k) ==
  \E f \in cdnData : LocKey(Loc(f.pkg, <<f.version>>, f.path)) = k

DepTasksOf(k) ==
  {tid \in DOMAIN tasks : tasks[tid].kind = "dep" /\ LocKey(tasks[tid].loc) = k}

EmittedDeps ==
  {i \in DOMAIN out : out[i].kind = "file" /\ StartsWith(out[i].name, NodeModules)}

\* the dependency files that some specifier occurrence resolved to: the
\* import edges that lead to a file of the CDN, as the set of their targets
ReachedFiles ==
  {LocKey(proms[pid].loc) :
     pid \in {q \in DOMAIN proms :
                /\ proms[q].st = "resolved"
                /\ proms[q].loc # NoLoc
                /\ OnCdn(LocKey(proms[q].loc))}}

\* the import edges that lead to the dependency file k
EdgesTo(k) ==
  {pid \in DOMAIN proms :
     proms[pid].st = "resolved" /\ proms[pid].loc # NoLoc /\ LocKey(proms[pid].loc) = k}

\* C1: each dependency file key pkg@version/path is fetched by
\* _handleDependency at most once and is never emitted twice; when the
\* stream has ended every reached file of the CDN has been emitted exactly
\* once, so the emitted dependency files are as many as the distinct files
\* reached, however many import edges lead to them.
C1_EachDependencyOnce ==
  /\ \A tid \in DOMAIN tasks :
       tasks[tid].kind = "dep" => LocKey(tasks[tid].loc) \in handled
  /\ \A k \in handled :
       /\ Cardinality(DepTasksOf(k)) <= 1
       /\ Cardinality(FilesNamed(Produced, DepName(k))) <= 1
  /\ mergedDone =>
       /\ \A k \in ReachedFiles : Cardinality(FilesNamed(out, DepName(k))) = 1
       /\ Cardinality(EmittedDeps) = Cardinality(ReachedFiles)

\* a run that has ended in which two import edges lead to one emitted file
C1_Witness ==
  /\ mergedDone
  /\ \E k \in ReachedFiles :
       /\ Cardinality(EdgesTo(k)) >= 2
       /\ Cardinality(FilesNamed(out, DepName(k))) = 1

\* the most specifier occurrences that one file of the model has: MaxOcc
\* in ProjectTexts, three in UrlInputs
MaxImports == MaxOf({MaxOcc, 3})

\* the work that a producer has left at most: a dependency waits for its
\* file, then for the lexer, then loops over its occurrences (a diagnostic
\* at most for each) and yields its file
TaskRank(t) ==
  CASE t.st = "fetch" -> 5 * MaxImports + 4
    [] t.st = "init" -> 5 * MaxImports + 3
    [] t.st = "await" -> 2 * t.i + 2
    [] OTHER -> 0

\* the awaits that a newSpecifierPromise has left at most
PromRank(p) ==
  CASE p.st = "pj" -> 3
    [] p.st = "main" -> 2
    [] p.st = "canon" -> 1
    [] OTHER -> 0

RECURSIVE SumRanks(_, _, _)
SumRanks(items, RankOf(_), n) ==
  IF n = 0 THEN 0 ELSE RankOf(items[n]) + SumRanks(items, RankOf, n - 1)

\* a measure of the work left: each key added to _alreadyHandled pays for
\* the one producer that _handleDependency adds for it
Rank ==
  SumRanks(tasks, TaskRank, Len(tasks))
    + SumRanks(proms, PromRank, Len(proms))
    + Len(buffer)
    + (5 * MaxImports + 4) * (Len(input) + 1 - inPos)
    + (IF processDone THEN 0 ELSE 1)
    + (IF mergedDone THEN 0 ELSE 1)
    - (5 * MaxImports + 5) * Cardinality(handled)

\* C2: the output stream of process ends, import cycles included, when
\* every continuation that is ready is run in the end and the CDN answers
\* every request: until the stream has ended some continuation is ready,
\* and every step leaves less work, so that no run goes on for ever.
C2_StreamEnds ==
  /\ [](mergedDone \/ Runnable)
  /\ [][Rank' < Rank]_vars

\* a run that has ended after it crawled the import cycle of foo@1.0.0:
\* index.js imports other.js, which imports index.js
C2_Witness ==
  /\ mergedDone
  /\ \E p \in DOMAIN proms, q \in DOMAIN proms :
       /\ proms[p].st = "resolved"
       /\ proms[q].st = "resolved"
       /\ proms[p].referrer = DepName(LocKey(proms[q].loc))
       /\ proms[q].referrer = DepName(LocKey(proms[p].loc))

HasManifest == \E i \in DOMAIN input : input[i] = ProjectPackageJson

\* a specifier occurrence of a project file that names a package and no version
Unversioned(p) ==
  /\ p.gpj = "project"
  /\ classifySpecifier(p.spec) = "bare"
  /\ parseNpmStyleSpecifier(p.spec).defined
  /\ parseNpmStyleSpecifier(p.spec).version = <<>>

Declared(p) == p.loc.pkg \in DOMAIN ProjectPackageJson.content.dependencies

\* C3: with the project's package.json in the build stream, before or
\* after the importing file, a bare specifier without a version resolves
\* within the range that the package.json declares for the package: foo is
\* declared ^1.0.0 and resolves to foo@1.0.0, never to the latest 2.0.0.
C3_DeclaredRangeWins ==
  HasManifest =>
    \A pid \in DOMAIN proms :
      (Unversioned(proms[pid]) /\ Declared(proms[pid]) /\ proms[pid].st # "pj") =>
        /\ proms[pid].st # "rejected"
        /\ proms[pid].loc.version \in
             {ProjectPackageJson.content.dependencies[proms[pid].loc.pkg],
              <<"1.0.0">>}
        /\ proms[pid].st = "resolved" =>
             proms[pid].value = <<"./">> \o DepName(<<"foo", "@", "1.0.0", "/", "index", ".js">>)

\* the package.json came after the importing file, and foo resolved to 1.0.0
C3_Witness ==
  /\ Len(input) = 2
  /\ input[2] = ProjectPackageJson
  /\ \E pid \in DOMAIN proms :
       /\ Unversioned(proms[pid])
       /\ proms[pid].st = "resolved"
       /\ proms[pid].loc = Loc(<<"foo">>, <<"1.0.0">>, <<"index", ".js">>)

InvalidManifest == input[1] = InvalidPackageJson

\* the resolution of an occurrence as it is with no manifest: the latest
\* version that the CDN has of the package
ResolvedAsLatest(p) ==
  IF Published(p.loc.pkg) = {}
    THEN p.st = "rejected"
    ELSE p.st = "resolved" /\ p.loc.version = <<MaxVersion(Published(p.loc.pkg))>>

C4_Outcome ==
  /\ mergedDone
  /\ Cardinality({i \in DOMAIN out : out[i] = InvalidPackageJson}) = 1
  /\ deferred.resolved /\ ~deferred.value.valid
  /\ \A tid \in DOMAIN tasks :
       tasks[tid].kind = "file" =>
         /\ tasks[tid].st = "done"
         /\ Len(tasks[tid].transforms) = Len(Lex(tasks[tid].content.text))
  /\ \A pid \in DOMAIN proms :
       Unversioned(proms[pid]) => ResolvedAsLatest(proms[pid])

\* C4: when the project's package.json does not parse, the run goes on
\* until the stream has ended, and then the package.json has been passed
\* through unchanged and every bare import of the project has resolved as
\* with no manifest, to the latest version.
C4_InvalidManifestFallsBack ==
  InvalidManifest => IF mergedDone THEN C4_Outcome ELSE Runnable

\* a run that has ended on an invalid package.json with foo resolved to 2.0.0
C4_Witness ==
  /\ InvalidManifest
  /\ mergedDone
  /\ \E pid \in DOMAIN proms :
       /\ Unversioned(proms[pid])
       /\ proms[pid].loc = Loc(<<"foo">>, <<"2.0.0">>, <<"index", ".js">>)

Mentions(message, token) == \E i \in DOMAIN message : message[i] = token

\* the occurrence's package is one that the CDN does not have
MissingPackage(p) ==
  p.st = "rejected" /\ p.loc # NoLoc /\ Published(p.loc.pkg) = {}

\* the range of the occurrence info in the text that the lexer was given
SpanIn(text, info) ==
  [start |-> charToLineAndChar(text, info.s), end |-> charToLineAndChar(text, info.e)]

\* the diagnostics of the file t for the occurrence info, at its range
DiagnosticsAt(t, info) ==
  {i \in DOMAIN Produced :
     /\ Produced[i].kind = "diagnostic"
     /\ Produced[i].name = t.name
     /\ StartsWith(Produced[i].message, <<"Could not resolve module">> \o info.n)
     /\ Mentions(Produced[i].message, "Cannot find package")
     /\ Produced[i].range = SpanIn(t.content.text, info)}

StillImports(text, n) == \E o \in DOMAIN Lex(text) : Lex(text)[o].n = n

\* C5: a file whose occurrence names a package that the CDN does not have
\* is emitted with that specifier still in place, and with exactly one
\* diagnostic for the occurrence: the file's name, a message that holds
\* the CDN's error body, and the range of the specifier.
C5_MissingPackageDiagnostic ==
  \A tid \in DOMAIN tasks :
    tasks[tid].st = "done" =>
      \A k \in DOMAIN tasks[tid].transforms :
        MissingPackage(proms[tasks[tid].transforms[k].prom]) =>
          /\ Cardinality(FilesNamed(Produced, tasks[tid].name)) = 1
          /\ StillImports(tasks[tid].js, tasks[tid].transforms[k].info.n)
          /\ Cardinality(DiagnosticsAt(tasks[tid], tasks[tid].transforms[k].info)) = 1

\* the diagnostics that name an occurrence that resolved to the file k
DiagnosticsOfEdgesTo(k) ==
  {i \in DOMAIN Produced :
     /\ Produced[i].kind = "diagnostic"
     /\ \E pid \in DOMAIN proms :
          /\ proms[pid].loc # NoLoc
          /\ LocKey(proms[pid].loc) = k
          /\ Produced[i].name = proms[pid].referrer
          /\ StartsWith(Produced[i].message,
                        <<"Could not resolve module">> \o proms[pid].spec)}

\* C6: when the stream has ended, every dependency file that the CDN
\* answered with a status other than 200 has a diagnostic on an occurrence
\* that imports it, and no file output.
C6_FailedFetchDiagnostic ==
  mergedDone =>
    \A tid \in DOMAIN tasks :
      tasks[tid].st = "failed" =>
        /\ DiagnosticsOfEdgesTo(LocKey(tasks[tid].loc)) # {}
        /\ FilesNamed(Produced, tasks[tid].name) = {}

AllInputsEmitted ==
  \A i \in DOMAIN input :
    IF input[i].kind = "file" /\ EndsWithJs(input[i].name)
      THEN Cardinality(FilesNamed(out, input[i].name)) = 1
      ELSE \E j \in DOMAIN out : out[j] = input[i]

AllFetchedEmitted ==
  /\ \A k \in ReachedFiles : FilesNamed(out, DepName(k)) # {}
  /\ \A tid \in DOMAIN tasks :
       tasks[tid].kind = "dep" =>
         IF OnCdn(LocKey(tasks[tid].loc))
           THEN tasks[tid].st = "done" /\ FilesNamed(out, tasks[tid].name) # {}
           ELSE tasks[tid].st = "failed"

\* C7: whatever requests fail and whatever specifiers are malformed, the
\* run goes on until the stream has ended, and then every input artifact
\* has been emitted and so has every dependency file that was reached and
\* that the CDN has.
C7_ErrorsStopNothing ==
  IF mergedDone THEN AllInputsEmitted /\ AllFetchedEmitted ELSE Runnable

\* a run that has ended in which one file has an occurrence that failed
\* and another whose dependency file was emitted
C7_Witness ==
  /\ mergedDone
  /\ \E p \in DOMAIN proms, q \in DOMAIN proms :
       /\ proms[p].task = proms[q].task
       /\ proms[p].st = "rejected"
       /\ proms[q].st = "resolved"
       /\ proms[q].loc # NoLoc
       /\ FilesNamed(out, DepName(LocKey(proms[q].loc))) # {}

\* the text with the occurrences transforms[k..] rewritten at the offsets
\* that the lexer recorded; transforms holds the last occurrence first, so
\* every offset is still that of the original text when it is used
RECURSIVE RewrittenFrom(_, _, _)
RewrittenFrom(js, transforms, k) ==
  IF k > Len(transforms) THEN js
  ELSE IF /\ proms[transforms[k].prom].st = "resolved"
          /\ proms[transforms[k].prom].value # transforms[k].info.n
    THEN RewrittenFrom(Splice(js, transforms[k].info.s, transforms[k].info.e,
                              Quoted(transforms[k].info,
                                     proms[transforms[k].prom].value)),
                       transforms, k + 1)
  ELSE RewrittenFrom(js, transforms, k + 1)

\* C12: the content that a file is emitted with is its original text with
\* exactly the original range of each resolved occurrence replaced by the
\* occurrence's new specifier.
C12_RewritesAtOriginalRanges ==
  \A tid \in DOMAIN tasks :
    tasks[tid].st = "done" =>
      /\ tasks[tid].js = RewrittenFrom(tasks[tid].content.text, tasks[tid].transforms, 1)
      /\ \A i \in FilesNamed(Produced, tasks[tid].name) :
           Produced[i].content.text = tasks[tid].js

\* an occurrence that _transformBareSpecifier has rewritten
RewrittenBare(p) ==
  p.st = "resolved" /\ p.loc # NoLoc /\ p.value # p.spec

Mapped(p) == p.gpj = "project" /\ p.spec \in DOMAIN importMap

\* C19: a bare specifier that the import map maps to a URL is rewritten to
\* that URL, and no dependency file is requested from the CDN or emitted
\* for it, though the CDN has a package of that name.
C19_ImportMapWins ==
  \A pid \in DOMAIN proms :
    Mapped(proms[pid]) =>
      /\ proms[pid].st = "resolved"
      /\ proms[pid].value = importMap[proms[pid].spec]
      /\ tasks[proms[pid].task].st = "done" =>
           StillImports(tasks[proms[pid].task].js, importMap[proms[pid].spec])
      /\ netLog = EmptyMap
      /\ \A i \in DOMAIN Produced : ~StartsWith(Produced[i].name, NodeModules)

IsPrefix(a, b) == Len(a) <= Len(b) /\ SubSeq(b, 1, Len(a)) = a

\* the items of one producer among items, in their order: a producer's
\* items carry the name of its file; _process passes on what is no JS file
RECURSIVE ItemsOf(_, _)
ItemsOf(items, name) ==
  IF items = <<>> THEN <<>>
  ELSE IF Head(items).name = name
    THEN <<Head(items)>> \o ItemsOf(Tail(items), name)
  ELSE ItemsOf(Tail(items), name)

ProducerNames == {Produced[i].name : i \in DOMAIN Produced}

\* C20: the merged sequence holds every item of every producer once, holds
\* nothing else, and keeps each producer's order. The items yielded so far
\* are out followed by buffer: a step only ever appends to them, a step of
\* the consumer moves the oldest of them and yields none, what the consumer
\* holds of one producer is a prefix of what that producer has yielded, and
\* when the sequence has ended nothing is left behind.
C20_MergedKeepsEachProducersOrder ==
  /\ [][/\ IsPrefix(Produced, Produced')
        /\ out' # out => (Produced' = Produced /\ Len(out') = Len(out) + 1)]_vars
  /\ [](/\ \A n \in ProducerNames : IsPrefix(ItemsOf(out, n), ItemsOf(Produced, n))
        /\ mergedDone => (buffer = <<>> /\ nsrc = 0))

\* the sequence has ended with two items of one producer and, between
\* them, an item of another
C20_Witness ==
  /\ mergedDone
  /\ \E i, j, k \in DOMAIN out :
       /\ i < j /\ j < k
       /\ out[i].name = out[k].name
       /\ out[j].name # out[i].name

\* the producers added to merged that have not returned: _process, and the
\* generators of _transformBareModuleSpecifiers and _handleDependency
UnfinishedTasks == {tid \in DOMAIN tasks : tasks[tid].st \notin {"done", "failed"}}

UnfinishedProducers == Cardinality(UnfinishedTasks) + (IF processDone THEN 0 ELSE 1)

\* C21: the merged sequence does not end while a producer that was added is
\* unfinished, the producers added by a producer that is being drained among
\* them: merged counts exactly the producers that have not returned, the
\* sequence has ended only when none is left and every item that was yielded
\* has been handed on, nothing is yielded after the end, and when no
\* producer is left and no item is waiting the sequence ends.
C21_EndsWhenEveryProducerHasEnded ==
  /\ [][mergedDone => (mergedDone' /\ out' = out /\ buffer' = buffer)]_vars
  /\ [](/\ nsrc = UnfinishedProducers
        /\ mergedDone => (UnfinishedProducers = 0 /\ out = Produced)
        /\ (UnfinishedProducers = 0 /\ buffer = <<>>) => (mergedDone \/ CanMergedEnd))

\* the sequence has ended with the file of a dependency whose producer was
\* added by the producer of a dependency, after _process had returned
C21_Witness ==
  /\ mergedDone
  /\ \E p \in DOMAIN proms :
       /\ StartsWith(proms[p].referrer, NodeModules)
       /\ proms[p].st = "resolved"
       /\ proms[p].loc # NoLoc
       /\ FilesNamed(out, DepName(LocKey(proms[p].loc))) # {}

\* the build outputs that _process passes on: what is not a file whose name
\* ends in .js
PassedOn(items) ==
  {i \in DOMAIN items : ~(items[i].kind = "file" /\ EndsWithJs(items[i].name))}

Copies(items, item) == Cardinality({i \in DOMAIN items : items[i] = item})

\* C23: a build output of the input that is not a file whose name ends in
\* .js (a file of another type, the project's package.json, valid or not, a
\* diagnostic) is never yielded more often than the input holds it, and when
\* the stream has ended the output holds it as often as the input, with its
\* name and content as they were.
C23_OthersPassThroughOnce ==
  /\ \A i \in PassedOn(input) : Copies(Produced, input[i]) <= Copies(input, input[i])
  /\ \A j \in PassedOn(Produced) :
       Produced[j].kind = "diagnostic" \/ Copies(input, Produced[j]) > 0
  /\ mergedDone =>
       \A i \in PassedOn(input) : Copies(out, input[i]) = Copies(input, input[i])

\* the stream has ended on a project with a stylesheet, a diagnostic of an
\* earlier build step and a package.json, and a JS file that was rewritten
C23_Witness ==
  /\ mergedDone
  /\ {Stylesheet, UpstreamDiagnostic, ProjectPackageJson}
       \subseteq {input[i] : i \in PassedOn(input)}
  /\ \E p \in DOMAIN proms : proms[p].st = "resolved" /\ proms[p].value # proms[p].spec

---------------------------------------------------------------------------
(* Specifiers that _transformSpecifier returns as they are.                *)

\* a URL in any file, or a relative specifier of a file of the project
LeftAlone(specifier, referrer) ==
  \/ classifySpecifier(specifier) = "url"
  \/ /\ classifySpecifier(specifier) = "relative"
     /\ ~StartsWith(referrer, NodeModules)

\* every import of the file is one that is left alone
OnlyLeftAlone(t) ==
  /\ Lex(t.js) # <<>>
  /\ \A o \in DOMAIN Lex(t.js) : LeftAlone(Lex(t.js)[o].n, t.name)

\* by how much the rewrites of the occurrences before offset s lengthen
\* the text
RECURSIVE GrowthBefore(_, _, _)
GrowthBefore(transforms, k, s) ==
  IF k > Len(transforms) THEN 0
  ELSE (IF /\ transforms[k].info.s < s
           /\ proms[transforms[k].prom].st = "resolved"
           /\ proms[transforms[k].prom].value # transforms[k].info.n
          THEN Len(Quoted(transforms[k].info, proms[transforms[k].prom].value))
                 - (transforms[k].info.e - transforms[k].info.s)
          ELSE 0)
       + GrowthBefore(transforms, k + 1, s)

\* what the emitted text holds where the occurrence info has come to lie
EmittedAt(t, info) ==
  Substring(t.js, info.s + GrowthBefore(t.transforms, 1, info.s),
            info.e + GrowthBefore(t.transforms, 1, info.s))

\* the step that runs _transformSpecifier on a file all of whose imports are
\* left alone sends no request, adds no key and adds no producer
LeftAloneHasNoEffect ==
  \A tid \in DOMAIN tasks :
    (tasks[tid].st = "init" /\ tasks'[tid].st # "init" /\ OnlyLeftAlone(tasks[tid]))
      => /\ cdnVars' = cdnVars
         /\ handled' = handled
         /\ Len(tasks') = Len(tasks)

\* such an occurrence resolves at once to its own specifier, with no
\* dependency and no wait
LeftAloneResolvesToItself ==
  \A pid \in DOMAIN proms :
    LeftAlone(proms[pid].spec, proms[pid].referrer) =>
      /\ proms[pid].st = "resolved"
      /\ proms[pid].value = proms[pid].spec
      /\ proms[pid].loc = NoLoc
      /\ proms[pid].wait = NoWait

\* the emitted text of a file holds the specifier of such an occurrence
LeftAloneStaysInText ==
  \A tid \in DOMAIN tasks :
    tasks[tid].st = "done" =>
      \A k \in DOMAIN tasks[tid].transforms :
        LeftAlone(tasks[tid].transforms[k].info.n, tasks[tid].name) =>
          EmittedAt(tasks[tid], tasks[tid].transforms[k].info)
            = tasks[tid].transforms[k].info.n

\* C24: a URL specifier in any file, and a relative specifier in a file of
\* the project, is left unchanged in the emitted text, causes no CDN
\* request, adds no key to the handled set and schedules no dependency
\* producer.
C24_UrlAndProjectRelativeLeftAlone ==
  /\ [][LeftAloneHasNoEffect]_vars
  /\ [](LeftAloneResolvesToItself /\ LeftAloneStaysInText)

\* the diagnostics of the file t that name the specifier of the occurrence
DiagnosticsFor(t, info) ==
  {i \in DOMAIN Produced :
     /\ Produced[i].kind = "diagnostic"
     /\ Produced[i].name = t.name
     /\ StartsWith(Produced[i].message, <<"Could not resolve module">> \o info.n)}

\* C25: the diagnostic for an occurrence that could not be resolved has the
\* range of that occurrence in the original text of the file, also when
\* other occurrences of the file were rewritten to another length.
C25_DiagnosticAtOriginalRange ==
  \A tid \in DOMAIN tasks :
    tasks[tid].st = "done" =>
      \A k \in DOMAIN tasks[tid].transforms :
        proms[tasks[tid].transforms[k].prom].st = "rejected" =>
          \E i \in DiagnosticsFor(tasks[tid], tasks[tid].transforms[k].info) :
            Produced[i].range
              = SpanIn(tasks[tid].content.text, tasks[tid].transforms[k].info)

\* the package and version that the name of a dependency file holds
PackageOf(name) == parseNpmStyleSpecifier(SliceFrom(name, Len(NodeModules)))

\* a relative specifier in a file under node_modules/
RelativeInDependency(p) ==
  classifySpecifier(p.spec) = "relative" /\ StartsWith(p.referrer, NodeModules)

SamePackage(location, name) ==
  /\ location.pkg = PackageOf(name).pkg
  /\ location.version = PackageOf(name).version

\* C26: a relative specifier inside a dependency file node_modules/P@v/...
\* resolves to a file of P at the version v of the referrer, never to
\* another version, with or without a file extension: every request made
\* for it and the location it ends with are of P@v; one with an extension
\* stays as it is, one without is rewritten to the path of the published
\* file that the CDN canonicalizes it to; the file is emitted under P@v.
C26_RelativeStaysInPackageVersion ==
  \A pid \in DOMAIN proms :
    RelativeInDependency(proms[pid]) =>
      /\ proms[pid].loc # NoLoc => SamePackage(proms[pid].loc, proms[pid].referrer)
      /\ proms[pid].wait.kind = "net" =>
           SamePackage(proms[pid].wait.pend.location, proms[pid].referrer)
      /\ proms[pid].st = "resolved" =>
           /\ proms[pid].loc # NoLoc
           /\ OnCdn(LocKey(proms[pid].loc))
           /\ fileExtension(proms[pid].loc.path) # <<>>
           /\ resolveUrlPath(proms[pid].referrer, proms[pid].value)
                = <<"/">> \o DepName(LocKey(proms[pid].loc))
           /\ IF fileExtension(proms[pid].spec) # <<>>
                THEN proms[pid].value = proms[pid].spec
                ELSE proms[pid].value
                       = relativeUrlPath(proms[pid].referrer,
                                         DepName(LocKey(proms[pid].loc)))
           /\ mergedDone =>
                Cardinality(FilesNamed(out, DepName(LocKey(proms[pid].loc)))) = 1

\* the stream has ended; bar@1.0.0/main.js imported ./util and the import
\* became ./util.js of bar@1.0.0 while the CDN's latest bar is 2.0.0
C26_Witness ==
  /\ mergedDone
  /\ "2.0.0" \in Published(<<"bar">>)
  /\ \E pid \in DOMAIN proms :
       /\ proms[pid].spec = <<"./", "util">>
       /\ proms[pid].st = "resolved"
       /\ proms[pid].value = <<"./", "util", ".js">>
       /\ proms[pid].loc = Loc(<<"bar">>, <<"1.0.0">>, <<"util", ".js">>)

\* a bare specifier without a version in a file under node_modules/
UnversionedInDependency(p) ==
  /\ classifySpecifier(p.spec) = "bare"
  /\ StartsWith(p.referrer, NodeModules)
  /\ parseNpmStyleSpecifier(p.spec).defined
  /\ parseNpmStyleSpecifier(p.spec).version = <<>>

\* the package.json files that the CDN has for the package of the file name
OwnPackageJsons(name) ==
  {f \in cdnData : /\ f.pkg = PackageOf(name).pkg
                   /\ <<f.version>> = PackageOf(name).version
                   /\ f.path = PackageJsonName}

\* the range that the package of the file name declares for pkg
Declares(name, pkg) ==
  {f.content.dependencies[pkg] :
     f \in {g \in OwnPackageJsons(name) :
              g.content.valid /\ pkg \in DOMAIN g.content.dependencies}}

RangeFor(name, pkg) ==
  IF Declares(name, pkg) = {}
    THEN <<"latest">>
    ELSE CHOOSE r \in Declares(name, pkg) : TRUE

\* the newest published version of pkg that the range admits
NewestIn(pkg, range) ==
  <<MaxVersion({v \in Published(pkg) : v \in VersionsOf(range[1])})>>

DiagnosticsOf(name) ==
  {i \in DOMAIN Produced :
     Produced[i].kind = "diagnostic" /\ Produced[i].name = name}

\* C27: a bare specifier without a version in a dependency file of package
\* P is resolved in the range that P's own package.json on the CDN declares
\* for the imported package, whatever the project's package.json says; when
\* P has no package.json, or one that is not JSON, or one without an entry
\* for the package, the range is "latest", the import resolves and the file
\* gets no diagnostic.
C27_DependencyUsesOwnPackageJson ==
  \A pid \in DOMAIN proms :
    UnversionedInDependency(proms[pid]) =>
      /\ proms[pid].st \in {"main", "canon"} =>
           proms[pid].loc.version
             = RangeFor(proms[pid].referrer, proms[pid].loc.pkg)
      /\ proms[pid].st = "resolved" =>
           proms[pid].loc.version
             = NewestIn(proms[pid].loc.pkg,
                        RangeFor(proms[pid].referrer, proms[pid].loc.pkg))
      /\ Declares(proms[pid].referrer, parseNpmStyleSpecifier(proms[pid].spec).pkg) = {} =>
           /\ proms[pid].st # "rejected"
           /\ DiagnosticsOf(proms[pid].referrer) = {}

\* the stream has ended for a project whose package.json declares foo
\* ^1.0.0 and bar ^2.0.0: the file of qux@2.0.0, whose package.json is not
\* JSON, imported foo and got foo@2.0.0, and the file of foo@2.0.0, whose
\* package.json declares bar ^1.0.0, imported bar and got bar@1.0.0
C27_Witness ==
  /\ mergedDone
  /\ deferred.resolved
  /\ deferred.value = OtherRangesPackageJson.content
  /\ DiagnosticsOf(DepName(<<"qux", "@", "2.0.0", "/", "index", ".js">>)) = {}
  /\ \E pid \in DOMAIN proms :
       /\ proms[pid].referrer = DepName(<<"qux", "@", "2.0.0", "/", "index", ".js">>)
       /\ proms[pid].spec = <<"foo">>
       /\ proms[pid].st = "resolved"
       /\ proms[pid].loc.version = <<"2.0.0">>
  /\ \E pid \in DOMAIN proms :
       /\ proms[pid].referrer = DepName(<<"foo", "@", "2.0.0", "/", "index", ".js">>)
       /\ proms[pid].spec = <<"bar">>
       /\ proms[pid].st = "resolved"
       /\ proms[pid].loc.version = <<"1.0.0">>

----------------------------------------------------------------------------
(* TypesFetcher (typescript-worker/types-fetcher.ts, the variant that lays *)
(* the typings out as nested node_modules directories).  The code between  *)
(* two suspension points runs as one step, on the state as the record f.   *)

\* `/// <reference lib="..."/>`
LibReference(lib) == <<"///", "<reference lib=", "\"", lib, "\"", "/>">>

RECURSIVE LibsFrom(_, _, _)
LibsFrom(text, i, acc) ==
  IF i + 2 > Len(text) THEN acc
  ELSE IF text[i] = "<reference lib="
    THEN LibsFrom(text, i + 3, Append(acc, text[i + 2]))
  ELSE LibsFrom(text, i + 1, acc)

\* ts.preProcessFile(sourceText): the imports and the lib references
preProcessFile(text) ==
  [importedFiles |-> [i \in 1..Len(Lex(text)) |-> Lex(text)[i].n],
   libReferenceDirectives |-> LibsFrom(text, 1, <<>>)]

DtsExtension == <<".d", ".ts">>

\* changeFileExtension(path, 'd.ts')
changeFileExtension(path) ==
  IF fileExtension(path) = <<>> THEN path \o DtsExtension
  ELSE SubSeq(path, 1, Len(path) - 1) \o DtsExtension

IndexDts == <<"index">> \o DtsExtension

\* a field of a parsed JSON object, <<>> when it is absent
Field(object, name) == IF name \in DOMAIN object THEN object[name] ELSE <<>>

\* `packageJson?.typings ?? packageJson?.types ?? (packageJson?.main !==
\* undefined ? changeFileExtension(packageJson.main, 'd.ts') : undefined) ??
\* 'index.d.ts'`
TypingsOf(pj) ==
  IF Field(pj, "typings") # <<>> THEN pj.typings
  ELSE IF Field(pj, "types") # <<>> THEN pj.types
  ELSE IF Field(pj, "main") # <<>> THEN changeFileExtension(pj.main)
  ELSE IndexDts

\* `typescript/lib/lib.${lib.toLowerCase()}.js`
LibSpecifier(lib) == <<"typescript", "/", "lib", "/", "lib.", lib, ".js">>

CdnFile(pkg, version, path, content) ==
  [pkg |-> pkg, version |-> version, path |-> path, content |-> content]

PackageJsonPath == <<"package", ".json">>

\* cdnData of the test 'conflicting versions': foo requires bar ^2.0.0 and
\* bar has two versions; and a file of foo that its index does not import
ConflictCdn ==
  { CdnFile(<<"foo">>, "1.0.0", PackageJsonPath,
            Json([p \in {<<"bar">>} |-> <<"^2.0.0">>], <<>>, <<>>)),
    CdnFile(<<"foo">>, "1.0.0", IndexDts, Js(Import(<<"bar">>))),
    CdnFile(<<"foo">>, "1.0.0", <<"sub">> \o DtsExtension, Js(<<"sub">>)),
    CdnFile(<<"bar">>, "1.0.0", PackageJsonPath, Json(NoDeps, <<>>, <<>>)),
    CdnFile(<<"bar">>, "1.0.0", IndexDts, Js(<<"bar1">>)),
    CdnFile(<<"bar">>, "2.0.0", PackageJsonPath, Json(NoDeps, <<>>, <<>>)),
    CdnFile(<<"bar">>, "2.0.0", IndexDts, Js(<<"bar2">>)) }

\* a third package, which requires bar ^2.0.0 as foo does
SharedCdn ==
  ConflictCdn \cup
  { CdnFile(<<"qux">>, "1.0.0", PackageJsonPath,
            Json([p \in {<<"bar">>} |-> <<"^2.0.0">>], <<>>, <<>>)),
    CdnFile(<<"qux">>, "1.0.0", IndexDts, Js(Import(<<"bar">>))) }

\* cdnData of the test 'chain of 3 imports'
ChainCdn ==
  { CdnFile(<<"foo">>, "1.0.0", PackageJsonPath, Json(NoDeps, <<>>, <<>>)),
    CdnFile(<<"foo">>, "1.0.0", IndexDts, Js(Import(<<"bar">>))),
    CdnFile(<<"bar">>, "1.0.0", PackageJsonPath, Json(NoDeps, <<>>, <<>>)),
    CdnFile(<<"bar">>, "1.0.0", IndexDts, Js(Import(<<"baz">>))),
    CdnFile(<<"baz">>, "1.0.0", PackageJsonPath, Json(NoDeps, <<>>, <<>>)),
    CdnFile(<<"baz">>, "1.0.0", IndexDts, Js(<<"baz">>)) }

\* a package that names its typings and imports a sibling file, a package
\* that has no package.json, and the libs: lib.dom refers to lib.es5
LibCdn ==
  { CdnFile(<<"baz">>, "1.0.0", PackageJsonPath,
            ("typings" :> (<<"baz">> \o DtsExtension)) @@ Json(NoDeps, <<>>, <<>>)),
    CdnFile(<<"baz">>, "1.0.0", <<"baz">> \o DtsExtension,
            Js(Import(<<"./", "types", ".js">>))),
    CdnFile(<<"baz">>, "1.0.0", <<"types">> \o DtsExtension, Js(<<"types">>)),
    CdnFile(<<"raw">>, "1.0.0", IndexDts, Js(<<"raw">>)),
    CdnFile(<<"typescript">>, "1.0.0", PackageJsonPath, Json(NoDeps, <<>>, <<>>)),
    CdnFile(<<"typescript">>, "1.0.0", <<"lib", "/", "lib.", "dom">> \o DtsExtension,
            Js(LibReference("es5"))),
    CdnFile(<<"typescript">>, "1.0.0", <<"lib", "/", "lib.", "es5">> \o DtsExtension,
            Js(<<"es5">>)) }

\* a package with two versions, each with an index that imports its sibling
\* file of the same name
SiblingCdn ==
  { CdnFile(<<"bar">>, "1.0.0", PackageJsonPath, Json(NoDeps, <<>>, <<>>)),
    CdnFile(<<"bar">>, "1.0.0", IndexDts, Js(Import(<<"./", "util", ".js">>))),
    CdnFile(<<"bar">>, "1.0.0", <<"util">> \o DtsExtension, Js(<<"util1">>)),
    CdnFile(<<"bar">>, "2.0.0", PackageJsonPath, Json(NoDeps, <<>>, <<>>)),
    CdnFile(<<"bar">>, "2.0.0", IndexDts, Js(Import(<<"./", "util", ".js">>))),
    CdnFile(<<"bar">>, "2.0.0", <<"util">> \o DtsExtension, Js(<<"util2">>)) }

\* two packages whose declaration files import each other, and two sibling
\* files of one package that import each other
CycleCdn ==
  { CdnFile(<<"foo">>, "1.0.0", PackageJsonPath, Json(NoDeps, <<>>, <<>>)),
    CdnFile(<<"foo">>, "1.0.0", IndexDts,
            Js(JoinImports(<< <<"bar">>, <<"./", "other", ".js">> >>))),
    CdnFile(<<"foo">>, "1.0.0", <<"other">> \o DtsExtension,
            Js(Import(<<"./", "index", ".js">>))),
    CdnFile(<<"bar">>, "1.0.0", PackageJsonPath, Json(NoDeps, <<>>, <<>>)),
    CdnFile(<<"bar">>, "1.0.0", IndexDts, Js(Import(<<"foo">>))) }

Fetcher ==
  [vc |-> versionCache, fc |-> fileCache, inflight |-> inflight,
   netLog |-> netLog, crawls |-> crawls, entrypointTasks |-> entrypointTasks,
   handledSpecifiers |-> handledSpecifiers,
   specifierToFetchResult |-> specifierToFetchResult,
   rootDependencies |-> rootDependencies, dependencyGraph |-> dependencyGraph]

SetFetcher(f) ==
  /\ versionCache' = f.vc
  /\ fileCache' = f.fc
  /\ inflight' = f.inflight
  /\ netLog' = f.netLog
  /\ crawls' = f.crawls
  /\ entrypointTasks' = f.entrypointTasks
  /\ handledSpecifiers' = f.handledSpecifiers
  /\ specifierToFetchResult' = f.specifierToFetchResult
  /\ rootDependencies' = f.rootDependencies
  /\ dependencyGraph' = f.dependencyGraph

\* A call of _handleBareSpecifier or _handleRelativeSpecifier: its
\* arguments (spec, referrer, and getPackageJson as owner: 0 for the
\* function that the project gave, whose value is given, else the call
\* whose closure getPackageJson2 it is), the promise that awaits it
\* (parent, 0 for none), its locals, and where it is suspended (st, wait).
NewCrawl(kind, spec, referrer, owner, given, parent) ==
  [kind |-> kind, spec |-> spec, referrer |-> referrer, owner |-> owner,
   given |-> given, parent |-> parent, st |-> "start", npm |-> NoLoc,
   dtsPath |-> <<>>, target |-> <<>>, loc |-> NoLoc, ref |-> NoLoc, entry |-> 0,
   packageJson2 |-> PjNull, wait |-> NoWait]

\* `referrerSpecifier !== null`
HasReferrer(cr) == cr.referrer # NoLoc

\* the call returns: its promise resolves
CrawlReturn(f, c) == [f EXCEPT !.crawls[c].st = "done", !.crawls[c].wait = NoWait]

AwaitFetcherCdn(f, c, st, op, b) ==
  [Issue(f, b) EXCEPT !.crawls[c].st = st, !.crawls[c].wait = WaitOf(op, b)]

\* `await this._cdn.<op>(location)` in the call c
CallFetcherCdn(f, c, st, op, location) ==
  AwaitFetcherCdn(f, c, st, op, CdnBegin(f.vc, f.fc, op, location))

\* _fetchAndAddToOutputFiles up to `await this._cdn.canonicalize(location)`
FetchAndAddToOutputFiles(f, c, location, target) ==
  [CallFetcherCdn(f, c, "canon", "canonicalize", location)
     EXCEPT !.crawls[c].target = target]

\* `deps[to.pkg] = to.version` on the dependencies of from
WithDependency(graph, from, to) ==
  (from :> ((to.pkg :> to.version)
              @@ (IF from \in DOMAIN graph THEN graph[from] ELSE EmptyMap)))
    @@ graph

\* every dependency recorded as one of the project
AddDependencyToRoot(f, cr, ref, to) ==
  [f EXCEPT !.rootDependencies = (to.pkg :> to.version) @@ @]

\* _addDependency
AddDependency(f, cr, ref, to) ==
  IF ~HasReferrer(cr)
    THEN [f EXCEPT !.rootDependencies = (to.pkg :> to.version) @@ @]
    ELSE [f EXCEPT !.dependencyGraph =
            WithDependency(@, <<ref.pkg, ref.version>>, to)]

NewDeferred(key) ==
  [key |-> key, settled |-> FALSE, error |-> FALSE, result |-> NoContent]

EntriesOf(results, key) == {i \in DOMAIN results : results[i].key = key}

\* a file asked for without its dependency being recorded
FetchNewUnrecorded(f, c, cr, ref, location, key) ==
  [CallFetcherCdn(
     [f EXCEPT !.specifierToFetchResult = Append(@, NewDeferred(key))],
     c, "fetch", "fetch", location)
     EXCEPT !.crawls[c].entry = Len(f.specifierToFetchResult) + 1,
            !.crawls[c].loc = location, !.crawls[c].ref = ref]

\* _fetchAndAddToOutputFiles, the specifier of a file that no call has asked
\* for: the dependency is recorded, the Deferred is set and the file asked for
FetchNew(f, c, cr, ref, location, key) ==
  [CallFetcherCdn(
     [AddDependency(f, cr, ref, location)
        EXCEPT !.specifierToFetchResult = Append(@, NewDeferred(key))],
     c, "fetch", "fetch", location)
     EXCEPT !.crawls[c].entry = Len(f.specifierToFetchResult) + 1,
            !.crawls[c].loc = location, !.crawls[c].ref = ref]

\* a _fetchAndAddToOutputFiles that does not look for the Deferred of its
\* specifier
AfterCanonicalizeAlwaysFetches(f, c, cr, ref, location, key) ==
  FetchNew(f, c, cr, ref, location, key)

\* _fetchAndAddToOutputFiles after its canonicalize calls: the Deferred of
\* the specifier is awaited when there is one
AfterCanonicalize(f, c, cr, ref, location, key) ==
  IF EntriesOf(f.specifierToFetchResult, key) # {}
    THEN [f EXCEPT !.crawls[c].st = "deferred", !.crawls[c].wait = NoWait,
                   !.crawls[c].loc = location, !.crawls[c].ref = ref,
                   !.crawls[c].entry =
                      CHOOSE i \in EntriesOf(f.specifierToFetchResult, key) : TRUE]
    ELSE FetchNew(f, c, cr, ref, location, key)

\* a _handleBareSpecifier and _handleRelativeSpecifier that go on whatever
\* _handledSpecifiers holds
HandleDtsUntested(f, c, npm, dtsPath, key) ==
  FetchAndAddToOutputFiles(
    [f EXCEPT !.handledSpecifiers = @ \cup {key}, !.crawls[c].dtsPath = dtsPath],
    c, Loc(npm.pkg, npm.version, dtsPath), "dts")

\* _handleBareSpecifier from `const dtsSpecifier` on, and the like lines of
\* _handleRelativeSpecifier: key is the specifier that is tested and added
HandleDts(f, c, npm, dtsPath, key) ==
  IF key \in f.handledSpecifiers
    THEN CrawlReturn(f, c)
    ELSE FetchAndAddToOutputFiles(
           [f EXCEPT !.handledSpecifiers = @ \cup {key},
                     !.crawls[c].dtsPath = dtsPath],
           c, Loc(npm.pkg, npm.version, dtsPath), "dts")

BareDts(f, c, npm, dtsPath) ==
  HandleDts(f, c, npm, dtsPath, LocKey(Loc(npm.pkg, npm.version, dtsPath)))

\* a _handleBareSpecifier that goes on whatever _handledSpecifiers holds
CrawlAfterVersionUntested(f, c, npm) ==
  IF npm.path = <<>>
    THEN FetchAndAddToOutputFiles(
           [f EXCEPT !.handledSpecifiers = @ \cup {LocKey(npm)},
                     !.crawls[c].npm = npm],
           c, Loc(npm.pkg, npm.version, PackageJsonPath), "package.json")
  ELSE BareDts([f EXCEPT !.handledSpecifiers = @ \cup {LocKey(npm)},
                         !.crawls[c].npm = npm],
               c, npm, changeFileExtension(npm.path))

\* _handleBareSpecifier from `const key` to its next await
CrawlAfterVersion(f, c, npm) ==
  IF LocKey(npm) \in f.handledSpecifiers
    THEN CrawlReturn(f, c)
  ELSE IF npm.path = <<>>
    THEN FetchAndAddToOutputFiles(
           [f EXCEPT !.handledSpecifiers = @ \cup {LocKey(npm)},
                     !.crawls[c].npm = npm],
           c, Loc(npm.pkg, npm.version, PackageJsonPath), "package.json")
  ELSE BareDts([f EXCEPT !.handledSpecifiers = @ \cup {LocKey(npm)},
                         !.crawls[c].npm = npm],
               c, npm, changeFileExtension(npm.path))

\* `await getPackageJson()`: the function that the project gave, or the
\* closure getPackageJson2 of the call owner
AwaitGetPackageJson(f, c, cr) ==
  IF cr.owner = 0
    THEN [f EXCEPT !.crawls[c].st = "gpj",
                   !.crawls[c].wait = ReadyWith("getPackageJson", cr.given)]
  ELSE IF f.crawls[cr.owner].packageJson2.state = "null"
    THEN CallFetcherCdn(f, c, "gpj", "fetchPackageJson",
                        Loc(f.crawls[cr.owner].npm.pkg,
                            f.crawls[cr.owner].npm.version, <<>>))
  ELSE [f EXCEPT !.crawls[c].st = "gpj",
                 !.crawls[c].wait =
                    ReadyWith("getPackageJson", f.crawls[cr.owner].packageJson2.value)]

\* _handleBareSpecifier up to its first await, npm the specifier parsed
BeginBare(f, c, cr, npm) ==
  IF ~npm.defined
    THEN CrawlReturn(f, c)
  ELSE IF npm.version = <<>>
    THEN AwaitGetPackageJson([f EXCEPT !.crawls[c].npm =
                                Loc(npm.pkg, npm.version, npm.path)], c, cr)
  ELSE CrawlAfterVersion(f, c, Loc(npm.pkg, npm.version, npm.path))

\* _handleRelativeSpecifier up to its first await
BeginRelative(f, c, cr, dtsPath) ==
  HandleDts([f EXCEPT !.crawls[c].npm =
               Loc(cr.referrer.pkg, cr.referrer.version, dtsPath)],
            c, cr.referrer, dtsPath, cr.referrer.pkg \o <<"/">> \o dtsPath)

\* the call cr is made: it runs up to its first await
StartCrawl(f, cr) ==
  IF cr.kind = "bare"
    THEN BeginBare([f EXCEPT !.crawls = Append(@, cr)], Len(f.crawls) + 1, cr,
                   parseNpmStyleSpecifier(cr.spec))
    ELSE BeginRelative([f EXCEPT !.crawls = Append(@, cr)], Len(f.crawls) + 1, cr,
                       changeFileExtension(
                         Tail(resolveUrlPath(cr.referrer.path, cr.spec))))

\* the first loop of _handleBareAndRelativeSpecifiers, from import i on
RECURSIVE SpawnImports(_, _, _, _, _, _)
SpawnImports(f, c, specifiers, i, referrer, owner) ==
  IF i > Len(specifiers) THEN f
  ELSE IF classifySpecifier(specifiers[i]) = "url"
    THEN SpawnImports(f, c, specifiers, i + 1, referrer, owner)
  ELSE SpawnImports(
         StartCrawl(f, NewCrawl(classifySpecifier(specifiers[i]), specifiers[i],
                                referrer, owner, NotJson, c)),
         c, specifiers, i + 1, referrer, owner)

\* addLibTypings: `this._entrypointTasks.push(this._addLibTypings(lib, null,
\* getPackageJson))`
AddLibTypings(f, lib, owner, given) ==
  StartCrawl([f EXCEPT !.entrypointTasks = Append(@, Len(f.crawls) + 1)],
             NewCrawl("bare", LibSpecifier(lib), NoLoc, owner, given, 0))

\* the second loop of _handleBareAndRelativeSpecifiers: what addLibTypings
\* returns is no promise, so Promise.all does not wait for the crawl
RECURSIVE SpawnLibs(_, _, _, _)
SpawnLibs(f, libs, i, owner) ==
  IF i > Len(libs) THEN f
  ELSE SpawnLibs(AddLibTypings(f, libs[i], owner, NotJson), libs, i + 1, owner)

\* _handleBareAndRelativeSpecifiers up to `await Promise.all(promises)`
HandleBareAndRelativeSpecifiers(f, c, fileInfo, referrer, owner) ==
  [SpawnLibs(SpawnImports(f, c, fileInfo.importedFiles, 1, referrer, owner),
             fileInfo.libReferenceDirectives, 1, owner)
     EXCEPT !.crawls[c].st = "join", !.crawls[c].wait = NoWait]

\* the caller of _fetchAndAddToOutputFiles resumed with its result res
FetchReturned(f, c, cr, res) ==
  IF cr.target = "package.json"
    THEN (IF res.error THEN BareDts(f, c, cr.npm, IndexDts)
          ELSE IF ~res.result.valid THEN CrawlReturn(f, c)
          ELSE BareDts(f, c, cr.npm, TypingsOf(res.result)))
  ELSE IF res.error
    THEN CrawlReturn(f, c)
  ELSE HandleBareAndRelativeSpecifiers(
         f, c, preProcessFile(res.result.text),
         Loc(cr.npm.pkg, cr.npm.version, cr.dtsPath),
         IF cr.kind = "bare" THEN c ELSE cr.owner)

\* a failed fetch that leaves the Deferred of the file pending
SettleFetchedOnly(f, entry, outcome) ==
  [f EXCEPT !.specifierToFetchResult[entry] =
     [@ EXCEPT !.settled = outcome.ok, !.error = ~outcome.ok,
               !.result = IF outcome.ok THEN outcome.content ELSE NoContent]]

\* `deferred.resolve(...)` of _fetchAndAddToOutputFiles
Settle(f, entry, outcome) ==
  [f EXCEPT !.specifierToFetchResult[entry] =
     [@ EXCEPT !.settled = TRUE, !.error = ~outcome.ok,
               !.result = IF outcome.ok THEN outcome.content ELSE NoContent]]

\* the closure getPackageJson2 assigns its packageJson2
AssignPackageJson2(f, cr, outcome) ==
  IF cr.wait.op = "fetchPackageJson"
    THEN [f EXCEPT !.crawls[cr.owner].packageJson2 =
            [state |-> "set", value |-> PackageJsonOf(outcome)]]
    ELSE f

\* a call resumed with the outcome of the CachingCdn call that it awaited
ContinueCrawl(f, c, cr, outcome) ==
  CASE cr.st = "gpj" ->
         CrawlAfterVersion(AssignPackageJson2(f, cr, outcome), c,
                           [cr.npm EXCEPT !.version =
                              DeclaredRange(PackageJsonOf(outcome), cr.npm.pkg)])
    [] cr.st = "canon" ->
         IF ~outcome.ok THEN CrawlReturn(f, c)
         ELSE IF HasReferrer(cr)
           THEN [CallFetcherCdn(f, c, "canonRef", "canonicalize", cr.referrer)
                   EXCEPT !.crawls[c].loc = outcome.loc]
         ELSE AfterCanonicalize(f, c, cr, NoLoc, outcome.loc, LocKey(outcome.loc))
    [] cr.st = "canonRef" ->
         IF ~outcome.ok THEN CrawlReturn(f, c)
         ELSE AfterCanonicalize(f, c, cr, outcome.loc, cr.loc, LocKey(cr.loc))
    [] cr.st = "fetch" ->
         FetchReturned(Settle(f, cr.entry, outcome), c, cr,
                       Settle(f, cr.entry, outcome).specifierToFetchResult[cr.entry])

ContinueCrawlAnswered(f, c, cr, e) ==
  ContinueCrawl(Answered(f, cr.wait, e), c, cr, e.outcome)

CrawlStep(f, c, cr) ==
  IF cr.wait.kind = "net"
    THEN ContinueCrawlAnswered(f, c, cr, CdnEnd(f.vc, f.fc, cr.wait.op, cr.wait.pend))
    ELSE ContinueCrawl(f, c, cr, cr.wait.outcome)

---------------------------------------------------------------------------
(* NodeModulesLayoutMaker and TypesFetcher.getFiles.  A layout is the set  *)
(* of its placements: the packages on the way from the root to a package,  *)
(* and the version that is placed there.                                   *)

Placement(path, version) == [path |-> path, version |-> version]

\* the directories in which a package at path looks for the package pkg:
\* its own node_modules and that of every package above it, up to the root
Candidates(path, pkg) == {SubSeq(path, 1, k) \o <<pkg>> : k \in 0..Len(path)}

Visible(layout, path, pkg) == {pl \in layout : pl.path \in Candidates(path, pkg)}

\* the placement that resolution finds first, walking upward
Nearest(found) == CHOOSE pl \in found : \A q \in found : Len(q.path) <= Len(pl.path)

DependenciesOf(graph, pkg, version) ==
  IF <<pkg, version>> \in DOMAIN graph THEN graph[<<pkg, version>>] ELSE EmptyMap

RECURSIVE SetToSeq(_)
SetToSeq(S) ==
  IF S = {} THEN <<>>
  ELSE <<CHOOSE x \in S : TRUE>> \o SetToSeq(S \ {CHOOSE x \in S : TRUE})

RECURSIVE PlaceAll(_, _, _)
RECURSIVE PlaceDependencies(_, _, _, _, _)

\* one dependency pkg@version of the package placed at p: it is there
\* already, is nested under p when another version is in the way, or is
\* hoisted to the root
PlaceOne(graph, layout, queue, p, todo, pkg, version, found) ==
  IF found # {} /\ Nearest(found).version = version
    THEN PlaceDependencies(graph, layout, queue, p, todo \ {pkg})
  ELSE IF found # {}
    THEN PlaceDependencies(graph,
                           layout \cup {Placement(p.path \o <<pkg>>, version)},
                           Append(queue, Placement(p.path \o <<pkg>>, version)),
                           p, todo \ {pkg})
  ELSE PlaceDependencies(graph, layout \cup {Placement(<<pkg>>, version)},
                         Append(queue, Placement(<<pkg>>, version)),
                         p, todo \ {pkg})

PlaceNext(graph, layout, queue, p, todo, deps, pkg) ==
  PlaceOne(graph, layout, queue, p, todo, pkg, deps[pkg], Visible(layout, p.path, pkg))

PlaceDependencies(graph, layout, queue, p, todo) ==
  IF todo = {} THEN PlaceAll(graph, layout, queue)
  ELSE PlaceNext(graph, layout, queue, p, todo,
                 DependenciesOf(graph, p.path[Len(p.path)], p.version),
                 CHOOSE pkg \in todo : TRUE)

PlaceAll(graph, layout, queue) ==
  IF queue = <<>> THEN layout
  ELSE PlaceDependencies(
         graph, layout, Tail(queue), Head(queue),
         DOMAIN DependenciesOf(graph, Head(queue).path[Len(Head(queue).path)],
                               Head(queue).version))

RootPlacements(root) == {Placement(<<pkg>>, root[pkg]) : pkg \in DOMAIN root}

\* NodeModulesLayoutMaker.layout(rootDependencies, dependencyGraph)
Layout(root, graph) ==
  PlaceAll(graph, RootPlacements(root), SetToSeq(RootPlacements(root)))

\* the directory of a placement: foo/ or foo/node_modules/bar/
RECURSIVE DirectoryOf(_)
DirectoryOf(path) ==
  IF Len(path) = 1 THEN path[1] \o <<"/">>
  ELSE path[1] \o <<"/">> \o NodeModules \o DirectoryOf(Tail(path))

\* filesByPv.get(`${pkg}@${version}`): the files fetched without an error
FilesByPv(fetched, pkg, version) ==
  {i \in DOMAIN fetched :
     /\ fetched[i].settled
     /\ ~fetched[i].error
     /\ parseNpmStyleSpecifier(fetched[i].key).pkg = pkg
     /\ parseNpmStyleSpecifier(fetched[i].key).version = version}

TypingsFile(name, content) == [name |-> name, content |-> content]

\* _buildFiles
BuildFiles(fetched, layout) ==
  UNION { {TypingsFile(DirectoryOf(pl.path)
                         \o parseNpmStyleSpecifier(fetched[i].key).path,
                       fetched[i].result) :
             i \in FilesByPv(fetched, pl.path[Len(pl.path)], pl.version)} :
          pl \in layout }

---------------------------------------------------------------------------
(* The projects that a TypesFetcher is run on.                             *)

NewFetcher ==
  [vc |-> EmptyMap, fc |-> EmptyMap, inflight |-> EmptyMap, netLog |-> EmptyMap,
   crawls |-> <<>>, entrypointTasks |-> <<>>, handledSpecifiers |-> {},
   specifierToFetchResult |-> <<>>, rootDependencies |-> EmptyMap,
   dependencyGraph |-> EmptyMap]

\* the first loop of addBareModuleTypings, from import i on
RECURSIVE AddBareModules(_, _, _, _)
AddBareModules(f, specifiers, i, given) ==
  IF i > Len(specifiers) THEN f
  ELSE IF classifySpecifier(specifiers[i]) # "bare"
    THEN AddBareModules(f, specifiers, i + 1, given)
  ELSE AddBareModules(
         StartCrawl([f EXCEPT !.entrypointTasks = Append(@, Len(f.crawls) + 1)],
                    NewCrawl("bare", specifiers[i], NoLoc, 0, given, 0)),
         specifiers, i + 1, given)

\* the second loop of addBareModuleTypings
RECURSIVE AddLibs(_, _, _, _)
AddLibs(f, libs, i, given) ==
  IF i > Len(libs) THEN f
  ELSE AddLibs(AddLibTypings(f, libs[i], 0, given), libs, i + 1, given)

\* addBareModuleTypings(sourceText, async () => packageJson)
addBareModuleTypings(f, fileInfo, packageJson) ==
  AddLibs(AddBareModules(f, fileInfo.importedFiles, 1, packageJson),
          fileInfo.libReferenceDirectives, 1, packageJson)

TypesProject(sourceText, packageJson, cdn) ==
  [sourceText |-> sourceText, packageJson |-> packageJson, cdnData |-> cdn]

BarOne == Json([p \in {<<"bar">>} |-> <<"^1.0.0">>], <<>>, <<>>)

NoDependencies == Json(NoDeps, <<>>, <<>>)

\* the source text, package.json and cdnData of the typings tests
\* 'conflicting versions', 'chain of 3 imports' and 'simple import', and:
\* one file under two specifiers, a third package that requires bar as foo
\* does, a lib reference, a path inside a package, a package without a
\* package.json, a package that is not there, a relative import, two
\* versions of a package side by side, and an import of a package and of a
\* file that the CDN does not have, each beside an import of bar, and
\* declaration files that import each other in a cycle
TypesProjects ==
  { TypesProject(JoinImports(<< <<"foo">>, <<"bar">> >>), BarOne, ConflictCdn),
    TypesProject(JoinImports(<< <<"foo">> >>), NoDependencies, ChainCdn),
    TypesProject(JoinImports(<< <<"bar">>, <<"bar", "@", "1.0.0">> >>), BarOne,
                 ConflictCdn),
    TypesProject(JoinImports(<< <<"foo">>, <<"qux">>, <<"bar">> >>), BarOne, SharedCdn),
    TypesProject(LibReference("dom"), NoDependencies, LibCdn),
    TypesProject(JoinImports(<< <<"foo", "/", "sub", ".js">> >>), NoDependencies,
                 ConflictCdn),
    TypesProject(JoinImports(<< <<"raw", "@", "1.0.0">> >>), NoDependencies, LibCdn),
    TypesProject(JoinImports(<< <<"raw">>, <<"nope">> >>), NoDependencies, LibCdn),
    TypesProject(JoinImports(<< <<"./", "local", ".js">>, <<"baz">> >>),
                 NoDependencies, LibCdn),
    TypesProject(JoinImports(<< <<"bar", "@", "1.0.0">>, <<"bar", "@", "2.0.0">> >>),
                 NoDependencies, SiblingCdn),
    TypesProject(JoinImports(<< <<"nope">>, <<"bar">> >>), BarOne, ConflictCdn),
    TypesProject(JoinImports(<< <<"foo", "@", "1.0.0", "/", "gone", ".js">>,
                                <<"bar">> >>), BarOne, ConflictCdn),
    TypesProject(JoinImports(<< <<"foo">> >>), NoDependencies, CycleCdn) }

InitialFetcher(project) ==
  addBareModuleTypings(NewFetcher, preProcessFile(project.sourceText),
                       project.packageJson)

InitFetcherAs(f) ==
  /\ versionCache = f.vc
  /\ fileCache = f.fc
  /\ inflight = f.inflight
  /\ netLog = f.netLog
  /\ crawls = f.crawls
  /\ entrypointTasks = f.entrypointTasks
  /\ handledSpecifiers = f.handledSpecifiers
  /\ specifierToFetchResult = f.specifierToFetchResult
  /\ rootDependencies = f.rootDependencies
  /\ dependencyGraph = f.dependencyGraph

\* checkTypesFetcher: `new TypesFetcher(cdn, importMapResolver)`, the calls
\* of addBareModuleTypings and the call of getFiles, whose
\* `Promise.all(this._entrypointTasks)` takes the tasks that the array holds
InitTypesFetcher ==
  /\ \E project \in TypesProjects :
       /\ cdnData = project.cdnData
       /\ InitNoPage
       /\ InitFetcherAs(InitialFetcher(project))
  /\ getFiles = [st |-> "join", i |-> 0, results |-> {},
                 awaited |-> {entrypointTasks[k] : k \in DOMAIN entrypointTasks}]
  /\ callers = [c \in Callers |-> IdleCaller]
  /\ calls = 0
  /\ InitNoTransformer

UnchangedByFetcher == UNCHANGED <<callerVars, transformerVars, cdnData, pageVars>>

CanCrawlResume(c) == crawls[c].st \in {"gpj", "canon", "canonRef", "fetch"}

\* the call c is resumed with what it awaited: the response to its request,
\* or a value that was there already
CrawlResume(c) ==
  /\ CanCrawlResume(c)
  /\ SetFetcher(CrawlStep(Fetcher, c, crawls[c]))
  /\ UNCHANGED getFiles
  /\ UnchangedByFetcher

CanCrawlDeferred(c) ==
  IF crawls[c].st = "deferred"
    THEN specifierToFetchResult[crawls[c].entry].settled
    ELSE FALSE

\* `return deferred.promise`: the caller of _fetchAndAddToOutputFiles is
\* resumed with the result of the call that fetched the file
CrawlDeferred(c) ==
  /\ CanCrawlDeferred(c)
  /\ SetFetcher(FetchReturned(Fetcher, c, crawls[c],
                              specifierToFetchResult[crawls[c].entry]))
  /\ UNCHANGED getFiles
  /\ UnchangedByFetcher

ChildrenOf(c) == {d \in DOMAIN crawls : crawls[d].parent = c}

CanCrawlJoin(c) ==
  crawls[c].st = "join" /\ \A d \in ChildrenOf(c) : crawls[d].st = "done"

\* `await Promise.all(promises)` of _handleBareAndRelativeSpecifiers is over
CrawlJoin(c) ==
  /\ CanCrawlJoin(c)
  /\ crawls' = [crawls EXCEPT ![c].st = "done"]
  /\ UNCHANGED <<cdnVars, entrypointTasks, handledSpecifiers, specifierToFetchResult,
                 rootDependencies, dependencyGraph, getFiles>>
  /\ UnchangedByFetcher

UnchangedByGetFiles ==
  UNCHANGED <<cdnVars, crawls, entrypointTasks, handledSpecifiers,
              specifierToFetchResult, rootDependencies, dependencyGraph>>

\* `await Promise.all(this._entrypointTasks)` is over
GetFilesJoined ==
  /\ getFiles.st = "join"
  /\ \A c \in getFiles.awaited : crawls[c].st = "done"
  /\ getFiles' = [getFiles EXCEPT !.st = "drain", !.i = 1]
  /\ UnchangedByGetFiles
  /\ UnchangedByFetcher

\* one `await deferred.promise` of the loop over _specifierToFetchResult
GetFilesAwaitDeferred ==
  /\ getFiles.st = "drain"
  /\ getFiles.i <= Len(specifierToFetchResult)
  /\ specifierToFetchResult[getFiles.i].settled
  /\ getFiles' = [getFiles EXCEPT !.i = @ + 1]
  /\ UnchangedByGetFiles
  /\ UnchangedByFetcher

\* the loop has reached the end of the map: the layout is made, the files
\* are built and getFiles returns them
GetFilesReturn ==
  /\ getFiles.st = "drain"
  /\ getFiles.i > Len(specifierToFetchResult)
  /\ getFiles' = [getFiles EXCEPT !.st = "returned",
                    !.results = BuildFiles(specifierToFetchResult,
                                           Layout(rootDependencies, dependencyGraph))]
  /\ UnchangedByGetFiles
  /\ UnchangedByFetcher

NextTypesFetcher ==
  \/ \E c \in DOMAIN crawls : CrawlResume(c)
  \/ \E c \in DOMAIN crawls : CrawlDeferred(c)
  \/ \E c \in DOMAIN crawls : CrawlJoin(c)
  \/ GetFilesJoined
  \/ GetFilesAwaitDeferred
  \/ GetFilesReturn

SpecTypesFetcher == InitTypesFetcher /\ [][NextTypesFetcher]_vars

---------------------------------------------------------------------------
(* The layout of the typings that getFiles returns.                        *)

\* the entry tasks of the project: the specifiers of the calls that
\* addBareModuleTypings made, in their order
EntrySpecifiers == [k \in DOMAIN entrypointTasks |-> crawls[entrypointTasks[k]].spec]

\* the files that getFiles has returned under the directory dir
ReturnedUnder(dir) == {r \in getFiles.results : StartsWith(r.name, dir)}

\* the files that the CDN has of pkg at version, named under dir
ServedUnder(pkg, version, dir) ==
  {TypingsFile(dir \o file.path, file.content) :
     file \in {g \in cdnData : g.pkg = pkg /\ g.version = version}}

\* the test 'conflicting versions': the entry point imports foo and bar, the
\* project requires bar ^1.0.0 and foo requires bar ^2.0.0
ConflictingVersions ==
  /\ cdnData = ConflictCdn
  /\ EntrySpecifiers = << <<"foo">>, <<"bar">> >>
  /\ \A c \in DOMAIN crawls : crawls[c].given = BarOne \/ crawls[c].parent # 0

\* C14: when the entry point imports foo and bar, the project requires bar ^1
\* and foo requires bar ^2, then whatever the order in which the crawls take
\* their steps, getFiles returns the files of bar 1.0.0 under bar/ and the
\* files of bar 2.0.0 under foo/node_modules/bar/
C14_ConflictingVersionsNested ==
  (getFiles.st = "returned" /\ ConflictingVersions) =>
    /\ ReturnedUnder(DirectoryOf(<< <<"bar">> >>))
         = ServedUnder(<<"bar">>, "1.0.0", DirectoryOf(<< <<"bar">> >>))
    /\ ReturnedUnder(DirectoryOf(<< <<"foo">>, <<"bar">> >>))
         = ServedUnder(<<"bar">>, "2.0.0", DirectoryOf(<< <<"foo">>, <<"bar">> >>))

C14_Witness ==
  /\ getFiles.st = "returned"
  /\ ConflictingVersions
  /\ ReturnedUnder(DirectoryOf(<< <<"foo">>, <<"bar">> >>)) # {}
  /\ ReturnedUnder(DirectoryOf(<< <<"bar">> >>)) # {}

\* the files that getFiles has returned in the directory dir of a package,
\* without those of the packages nested under it
ReturnedIn(dir) ==
  {r \in ReturnedUnder(dir) : ~StartsWith(r.name, dir \o NodeModules)}

\* the declaration files that were fetched: the entries of
\* _specifierToFetchResult that hold a file other than a package.json
FetchedDeclarations ==
  {i \in DOMAIN specifierToFetchResult :
     /\ specifierToFetchResult[i].settled
     /\ ~specifierToFetchResult[i].error
     /\ parseNpmStyleSpecifier(specifierToFetchResult[i].key).path # PackageJsonPath}

\* the package.json that the CDN has of pkg at version
ServedPackageJson(pkg, version) ==
  IF FilesAt(pkg, version, {PackageJsonPath}) = {} THEN NotJson
  ELSE (CHOOSE g \in FilesAt(pkg, version, {PackageJsonPath}) : TRUE).content

\* the requirements of the fetched declaration files: the package P at
\* version v imports the package D, and the CDN resolves what P asks of D
\* (the version in the specifier, else the range in P's package.json, else
\* latest) to the version dv
Requirement(P, v, npm, range) ==
  [P |-> P, v |-> v, D |-> npm.pkg,
   dvs |-> Published(npm.pkg) \cap VersionsOf(range[1])]

RequirementOf(P, v, npm) ==
  Requirement(P, v, npm,
              IF npm.version # <<>> THEN npm.version
              ELSE DeclaredRange(ServedPackageJson(P, v), npm.pkg))

RequirementsIn(from, imports) ==
  {RequirementOf(from.pkg, from.version[1], parseNpmStyleSpecifier(imports[k])) :
     k \in {j \in DOMAIN imports : classifySpecifier(imports[j]) = "bare"}}

Requirements ==
  {req \in UNION {RequirementsIn(parseNpmStyleSpecifier(specifierToFetchResult[i].key),
                                 preProcessFile(specifierToFetchResult[i].result.text)
                                   .importedFiles) :
                    i \in FetchedDeclarations} :
     req.dvs # {}}

\* the directories with files in them that resolution tries for pkg from the
\* package at path, and the one that it finds first, walking upward
FoundFrom(path, pkg) ==
  {q \in Candidates(path, pkg) : ReturnedIn(DirectoryOf(q)) # {}}

FirstFound(found) == CHOOSE q \in found : \A r \in found : Len(r) <= Len(q)

ResolvesTo(found, pkg, version) ==
  IF found = {} THEN FALSE
  ELSE ReturnedIn(DirectoryOf(FirstFound(found)))
         \subseteq ServedUnder(pkg, version, DirectoryOf(FirstFound(found)))

\* C15: in what getFiles returns, a bare import in a fetched declaration file
\* of P at v that resolved to D at dv finds, walking upward through the
\* node_modules directories from every place where the files of P at v are,
\* the files of D at dv and not those of another version of D
C15_RequirerFindsItsVersion ==
  getFiles.st = "returned" =>
    \A req \in Requirements :
      \A pl \in Layout(rootDependencies, dependencyGraph) :
        (pl.path[Len(pl.path)] = req.P /\ pl.version = <<req.v>>) =>
          ResolvesTo(FoundFrom(pl.path, req.D), req.D, MaxVersion(req.dvs))

\* the test 'chain of 3 imports': the entry point imports foo, foo imports
\* bar and bar imports baz
ChainOfThree ==
  /\ cdnData = ChainCdn
  /\ EntrySpecifiers = << <<"foo">> >>

\* the placements of the layout that getFiles makes
Placed == Layout(rootDependencies, dependencyGraph)

\* no copy of the package of pl with another version is placed
Unconflicted(layout, pl) ==
  \A q \in layout : q.path[Len(q.path)] = pl.path[Len(pl.path)] => q.version = pl.version

\* C16: a package whose version conflicts with no copy that is placed is
\* hoisted: it is placed once, at the root, and on the chain foo imports bar
\* imports baz getFiles returns the files of foo, bar and baz once each, under
\* foo/, bar/ and baz/, and none under a nested node_modules directory
C16_UnconflictedIsHoisted ==
  getFiles.st = "returned" =>
    /\ \A pl \in Placed : Unconflicted(Placed, pl) => Len(pl.path) = 1
    /\ ChainOfThree =>
         getFiles.results =
           UNION {ServedUnder(pkg, "1.0.0", DirectoryOf(<<pkg>>)) :
                    pkg \in {<<"foo">>, <<"bar">>, <<"baz">>}}

C16_Witness ==
  /\ getFiles.st = "returned"
  /\ ChainOfThree
  /\ Placement(<< <<"baz">> >>, <<"1.0.0">>) \in Placed
  /\ <<"baz">> \notin DOMAIN rootDependencies
  /\ ReturnedIn(DirectoryOf(<< <<"baz">> >>)) # {}

\* the crawl tasks that have not finished
Unfinished == {c \in DOMAIN crawls : crawls[c].st # "done"}

\* C17: getFiles makes the layout and returns only when every crawl task
\* scheduled so far has finished, the tasks spawned from fetched declaration
\* files and the lib-reference crawls scheduled after its call among them
C17_GetFilesWaitsForEveryCrawl ==
  [][(getFiles.st # "returned" /\ getFiles'.st = "returned") => Unfinished = {}]_vars

\* the package.json that belongs in the directory of pkg at version: the
\* one that the CDN has, else the stub {}
ExpectedPackageJson(pkg, version) ==
  IF FilesAt(pkg, version, {PackageJsonPath}) = {}
    THEN Json(NoDeps, <<>>, <<>>)
    ELSE ServedPackageJson(pkg, version)

\* C18: for every package of which getFiles returns a file, it returns a
\* package.json in the directory of that package: the fetched one, or a stub
\* {} when none was fetched, as for a package that was imported by a path
\* inside it only or that has no package.json on the CDN
C18_EveryPackageHasPackageJson ==
  getFiles.st = "returned" =>
    \A pl \in Placed :
      ReturnedIn(DirectoryOf(pl.path)) # {} =>
        TypingsFile(DirectoryOf(pl.path) \o PackageJsonPath,
                    ExpectedPackageJson(pl.path[Len(pl.path)], pl.version[1]))
          \in getFiles.results

---------------------------------------------------------------------------
(* MergedAsyncIterables on its own, with producers that may raise.  A      *)
(* producer is the list of what its generator does: it yields an item,     *)
(* adds a further producer to merged while it is being drained, or raises  *)
(* an error; at the end of the list it returns.                            *)

MaxProducers == 2

\* the producers that add none themselves
LeafScripts == { <<"yield">>, <<"raise">>, <<"yield", "raise">> }

\* the first producer, which may add a producer as _process does
Scripts ==
  LeafScripts \cup { <<"yield", "yield">>, <<"add", "yield">>, <<"add", "raise">>,
                     <<"yield", "add">> }

Producer(script) == [st |-> "run", script |-> script, i |-> 1]

MergedItem(t, i) == [kind |-> "item", name |-> t, n |-> i]

\* `const merged = new MergedAsyncIterables()` and the first calls of
\* merged.add, as in process()
InitMerger ==
  /\ InitCdn
  /\ callers = [c \in Callers |-> IdleCaller]
  /\ calls = 0
  /\ InitNoFetcher
  /\ importMap = EmptyMap
  /\ input = <<>>
  /\ inPos = 1
  /\ processDone = TRUE
  /\ deferred = NoDeferred
  /\ handled = {}
  /\ proms = <<>>
  /\ \E n \in 1..MaxProducers :
       /\ tasks \in [1..n -> {Producer(s) : s \in Scripts}]
       /\ \A t \in 2..n : tasks[t].script \in LeafScripts
       /\ nsrc = n
  /\ buffer = <<>>
  /\ out = <<>>
  /\ mergedDone = FALSE

UnchangedByMergerProducers ==
  UNCHANGED <<cdnVars, callerVars, importMap, input, inPos, processDone, deferred,
              handled, proms, out, mergedDone, cdnData, typesFetcherVars, pageVars>>

AtStep(t, step) ==
  /\ tasks[t].st = "run"
  /\ tasks[t].i <= Len(tasks[t].script)
  /\ tasks[t].script[tasks[t].i] = step

\* the producer t yields an item
ProducerYield(t) ==
  /\ AtStep(t, "yield")
  /\ buffer' = Append(buffer, MergedItem(t, tasks[t].i))
  /\ tasks' = [tasks EXCEPT ![t].i = @ + 1]
  /\ UNCHANGED nsrc
  /\ UnchangedByMergerProducers

\* the producer t, while it is drained, calls merged.add
ProducerAdd(t) ==
  /\ AtStep(t, "add")
  /\ \E s \in LeafScripts :
       tasks' = Append([tasks EXCEPT ![t].i = @ + 1], Producer(s))
  /\ nsrc' = nsrc + 1
  /\ UNCHANGED buffer
  /\ UnchangedByMergerProducers

\* a raise that ends the merged sequence
ProducerRaiseAborts(t) ==
  /\ AtStep(t, "raise")
  /\ tasks' = [tasks EXCEPT ![t].st = "raised"]
  /\ nsrc' = 0
  /\ buffer' = <<>>
  /\ UNCHANGED <<cdnVars, callerVars, importMap, input, inPos, processDone, deferred,
                 handled, proms, out, mergedDone, cdnData, typesFetcherVars, pageVars>>

\* the producer t raises an error: it ends, and merged has one producer less
ProducerRaise(t) ==
  /\ AtStep(t, "raise")
  /\ tasks' = [tasks EXCEPT ![t].st = "raised"]
  /\ nsrc' = nsrc - 1
  /\ UNCHANGED buffer
  /\ UnchangedByMergerProducers

\* the producer t returns
ProducerReturn(t) ==
  /\ tasks[t].st = "run"
  /\ tasks[t].i > Len(tasks[t].script)
  /\ tasks' = [tasks EXCEPT ![t].st = "done"]
  /\ nsrc' = nsrc - 1
  /\ UNCHANGED buffer
  /\ UnchangedByMergerProducers

NextMerger ==
  \/ \E t \in DOMAIN tasks : ProducerYield(t)
  \/ \E t \in DOMAIN tasks : ProducerAdd(t)
  \/ \E t \in DOMAIN tasks : ProducerRaise(t)
  \/ \E t \in DOMAIN tasks : ProducerReturn(t)
  \/ Emit
  \/ MergedEnd

SpecMerger == InitMerger /\ [][NextMerger]_vars

\* the items that the producer t yields before it returns or raises
YieldsOf(t) ==
  {MergedItem(t, i) :
     i \in {j \in DOMAIN tasks[t].script :
              /\ tasks[t].script[j] = "yield"
              /\ \A k \in 1..j : tasks[t].script[k] # "raise"}}

ItemsIn(items, t) == {items[i] : i \in {j \in DOMAIN items : items[j].name = t}}

Raised == {t \in DOMAIN tasks : tasks[t].st = "raised"}

\* C22: a producer that raises an error ends alone: its raise changes no
\* other producer, takes no item away and does not end the sequence; until
\* the sequence has ended some step can be taken, and when it has ended
\* every producer has returned or raised and every item that a producer
\* yielded, raised or not, has been handed to the consumer.
C22_RaisingProducerEndsAlone ==
  /\ [][\A t \in DOMAIN tasks :
          (tasks[t].st = "run" /\ tasks'[t].st = "raised") =>
            /\ Produced' = Produced
            /\ mergedDone' = mergedDone
            /\ \A u \in DOMAIN tasks : u # t => tasks'[u] = tasks[u]]_vars
  /\ [](IF mergedDone
          THEN /\ \A t \in DOMAIN tasks : tasks[t].st \in {"done", "raised"}
               /\ \A t \in DOMAIN tasks : ItemsIn(out, t) = YieldsOf(t)
          ELSE \/ \E t \in DOMAIN tasks : tasks[t].st = "run"
               \/ CanEmit
               \/ CanMergedEnd)

\* the sequence has ended after a producer raised and another, which had
\* not finished then, yielded its items and returned
C22_Witness ==
  /\ mergedDone
  /\ \E t \in Raised, u \in DOMAIN tasks :
       /\ tasks[u].st = "done"
       /\ YieldsOf(u) # {}
       /\ ItemsIn(out, u) = YieldsOf(u)
       /\ YieldsOf(t) # {}


----------------------------------------------------------------------------
(* What _addDependency has recorded when the layout is made.               *)

\* the dependency graph holds the edge P@v requires D@dv
HasEdge(P, v, D, dv) ==
  /\ <<P, <<v>>>> \in DOMAIN dependencyGraph
  /\ D \in DOMAIN dependencyGraph[<<P, <<v>>>>]
  /\ dependencyGraph[<<P, <<v>>>>][D] = <<dv>>

\* a declaration file of pkg at version has been fetched
FetchedOf(pkg, version) ==
  \E i \in FetchedDeclarations :
    /\ parseNpmStyleSpecifier(specifierToFetchResult[i].key).pkg = pkg
    /\ parseNpmStyleSpecifier(specifierToFetchResult[i].key).version = <<version>>

\* the bare imports of the entry points: the calls without a referrer, with
\* the versions that the CDN has for what the project asks of the package
EntryRequirements ==
  {req \in {RequirementOf(<<>>, "", parseNpmStyleSpecifier(crawls[c].spec)) :
              c \in {d \in DOMAIN crawls :
                       /\ crawls[d].kind = "bare"
                       /\ ~HasReferrer(crawls[d])
                       /\ parseNpmStyleSpecifier(crawls[d].spec).version # <<>>}}
          \cup
          {Requirement(<<>>, "", parseNpmStyleSpecifier(crawls[c].spec),
                       DeclaredRange(crawls[c].given,
                                     parseNpmStyleSpecifier(crawls[c].spec).pkg)) :
              c \in {d \in DOMAIN crawls :
                       /\ crawls[d].kind = "bare"
                       /\ ~HasReferrer(crawls[d])
                       /\ parseNpmStyleSpecifier(crawls[d].spec).defined
                       /\ parseNpmStyleSpecifier(crawls[d].spec).version = <<>>}} :
     req.dvs # {} /\ FetchedOf(req.D, MaxVersion(req.dvs))}

\* every import that resolved is recorded
EveryDependencyRecorded ==
  /\ \A req \in Requirements :
       FetchedOf(req.D, MaxVersion(req.dvs)) =>
         HasEdge(req.P, req.v, req.D, MaxVersion(req.dvs))
  /\ \A req \in EntryRequirements :
       /\ req.D \in DOMAIN rootDependencies
       /\ rootDependencies[req.D] = <<MaxVersion(req.dvs)>>

\* C28: when getFiles makes the layout, the dependency graph holds the edge
\* P@v requires D@dv for every bare import in a fetched declaration file of
\* P at v that resolved to D at dv, and the root dependencies hold D at dv
\* for every bare import of an entry point that resolved to D at dv, also
\* when the files of D had been asked for on behalf of another referrer.
C28_EveryDependencyRecordedAtLayout ==
  [][(getFiles.st = "drain" /\ getFiles'.st = "returned")
       => EveryDependencyRecorded]_vars

\* some call for a relative specifier takes a step
RelativeCrawlSteps ==
  \E c \in DOMAIN crawls :
    crawls[c].kind = "relative" /\ crawls'[c] # crawls[c]

\* no package is recorded as a dependency of itself
NoSelfEdge ==
  \A from \in DOMAIN dependencyGraph : from[1] \notin DOMAIN dependencyGraph[from]

\* C29: a crawl of a relative specifier in a fetched declaration file
\* leaves the dependency graph and the root dependencies as they are, and
\* the graph never holds an edge from a package to itself.
C29_RelativeCrawlRecordsNothing ==
  /\ [][RelativeCrawlSteps => UNCHANGED <<rootDependencies, dependencyGraph>>]_vars
  /\ []NoSelfEdge

\* the declaration file that a relative import in the file at location names
SiblingOf(location, relative) ==
  Loc(location.pkg, location.version,
      changeFileExtension(Tail(resolveUrlPath(location.path, relative))))

\* the sibling files that the relative imports of the fetched declaration
\* files name and that the CDN has
Siblings ==
  {sib \in UNION {{SiblingOf(parseNpmStyleSpecifier(specifierToFetchResult[i].key),
                             preProcessFile(specifierToFetchResult[i].result.text)
                               .importedFiles[k]) :
                     k \in {j \in DOMAIN preProcessFile(
                                    specifierToFetchResult[i].result.text).importedFiles :
                              classifySpecifier(
                                preProcessFile(specifierToFetchResult[i].result.text)
                                  .importedFiles[j]) = "relative"}} :
                  i \in FetchedDeclarations} :
     FilesAt(sib.pkg, sib.version[1], {sib.path}) # {}}

\* C30: a relative import in a fetched declaration file of P at v has the
\* sibling file of P at v fetched, also when the file of that path of
\* another version of P was crawled before in the same TypesFetcher: when
\* getFiles returns, every such sibling that the CDN has is among the
\* files fetched.
C30_SiblingOfSameVersionFetched ==
  getFiles.st = "returned" =>
    \A sib \in Siblings :
      \E i \in FetchedDeclarations : specifierToFetchResult[i].key = LocKey(sib)


---------------------------------------------------------------------------
(* Imports whose package or declaration file the CDN does not have.        *)

\* the entry crawls: the tasks that addBareModuleTypings started for the bare
\* specifiers of the entry point
EntryCrawls ==
  {c \in DOMAIN crawls :
     /\ crawls[c].kind = "bare"
     /\ ~HasReferrer(crawls[c])
     /\ parseNpmStyleSpecifier(crawls[c].spec).defined}

\* the versions that the CDN has of the package of the entry crawl c within
\* the range that the crawl asks for
EntryVersions(c) ==
  Published(parseNpmStyleSpecifier(crawls[c].spec).pkg)
    \cap VersionsOf((IF parseNpmStyleSpecifier(crawls[c].spec).version # <<>>
                       THEN parseNpmStyleSpecifier(crawls[c].spec).version
                       ELSE DeclaredRange(crawls[c].given,
                                          parseNpmStyleSpecifier(crawls[c].spec).pkg))[1])

\* the declaration file that a specifier names in the package at version v
EntryDtsPath(npm, v) ==
  IF npm.path # <<>> THEN changeFileExtension(npm.path)
  ELSE IF ServedPackageJson(npm.pkg, v).valid
    THEN TypingsOf(ServedPackageJson(npm.pkg, v))
  ELSE IndexDts

\* the declaration file of the entry crawl c, as the CDN has it
EntryDeclaration(c) ==
  FilesAt(parseNpmStyleSpecifier(crawls[c].spec).pkg,
          MaxVersion(EntryVersions(c)),
          {EntryDtsPath(parseNpmStyleSpecifier(crawls[c].spec),
                        MaxVersion(EntryVersions(c)))})

\* the CDN does not have the package, or not the declaration file
MissingOnCdn(c) ==
  IF EntryVersions(c) = {} THEN TRUE ELSE EntryDeclaration(c) = {}

\* every file that the crawl asks the CDN for is there
CouldBeFetched(c) ==
  IF EntryVersions(c) = {} THEN FALSE
  ELSE /\ EntryDeclaration(c) # {}
       /\ \/ parseNpmStyleSpecifier(crawls[c].spec).path # <<>>
          \/ FilesAt(parseNpmStyleSpecifier(crawls[c].spec).pkg,
                     MaxVersion(EntryVersions(c)), {PackageJsonPath}) # {}

\* the name under which getFiles returns the declaration file of c
EntryDeclarationName(c) ==
  DirectoryOf(<<parseNpmStyleSpecifier(crawls[c].spec).pkg>>)
    \o EntryDtsPath(parseNpmStyleSpecifier(crawls[c].spec),
                    MaxVersion(EntryVersions(c)))

\* some step of NextTypesFetcher can be taken
FetcherRunnable ==
  \/ \E c \in DOMAIN crawls : CanCrawlResume(c)
  \/ \E c \in DOMAIN crawls : CanCrawlDeferred(c)
  \/ \E c \in DOMAIN crawls : CanCrawlJoin(c)
  \/ getFiles.st = "join" /\ \A c \in getFiles.awaited : crawls[c].st = "done"
  \/ /\ getFiles.st = "drain"
     /\ IF getFiles.i <= Len(specifierToFetchResult)
          THEN specifierToFetchResult[getFiles.i].settled
          ELSE TRUE

\* the imports of the entry point that the CDN cannot serve
MissingImports == {c \in EntryCrawls : MissingOnCdn(c)}

\* C31: when the CDN does not have the package or the declaration file of an
\* import of the entry point, the crawl of that import finishes, getFiles
\* does not get stuck and returns, no returned file is one of that import,
\* and the declaration file of every other import of the entry point that
\* could be fetched is among the returned files
C31_MissingImportEndsLocally ==
  /\ [](MissingImports # {} => (getFiles.st = "returned" \/ FetcherRunnable))
  /\ []((getFiles.st = "returned" /\ MissingImports # {}) =>
          /\ \A c \in MissingImports : crawls[c].st = "done"
          /\ \A c \in MissingImports :
               IF EntryVersions(c) = {}
                 THEN ReturnedUnder(DirectoryOf(
                        <<parseNpmStyleSpecifier(crawls[c].spec).pkg>>)) = {}
                 ELSE \A r \in getFiles.results : r.name # EntryDeclarationName(c)
          /\ \A c \in EntryCrawls :
               CouldBeFetched(c) =>
                 \E g \in EntryDeclaration(c) :
                   TypingsFile(EntryDeclarationName(c), g.content)
                     \in getFiles.results)

\* getFiles has returned in a project that imports a file that the CDN does
\* not have: the fetch was settled with an error, and the files of bar are
\* returned
C31_Witness ==
  /\ getFiles.st = "returned"
  /\ \E c \in MissingImports : EntryVersions(c) # {}
  /\ \E i \in DOMAIN specifierToFetchResult :
       specifierToFetchResult[i].settled /\ specifierToFetchResult[i].error
  /\ \E c \in EntryCrawls : CouldBeFetched(c)
  /\ ReturnedIn(DirectoryOf(<< <<"bar">> >>)) # {}

---------------------------------------------------------------------------
(* The visited tests of the crawls of TypesFetcher.                        *)

\* the key under which the call cr tests and marks _handledSpecifiers before
\* it asks for the file target: `${pkg}@${version}/${path}` of the specifier,
\* `${pkg}@${version}/${dtsPath}`, or `${pkg}/${dtsPath}` in
\* _handleRelativeSpecifier
HandledKeyOf(cr) ==
  IF cr.target = "package.json" THEN LocKey(cr.npm)
  ELSE IF cr.kind = "bare" THEN LocKey(Loc(cr.npm.pkg, cr.npm.version, cr.dtsPath))
  ELSE cr.npm.pkg \o <<"/">> \o cr.dtsPath

\* the call c is past a visited test: it asks for the file target
AsksFor(cs, c, target) ==
  IF c \in DOMAIN cs
    THEN cs[c].st = "canon" /\ cs[c].target = target
    ELSE FALSE

\* a call of _handleBareSpecifier that is suspended in `await getPackageJson()`
AwaitsGetPackageJson(cs, c) ==
  IF c \in DOMAIN cs THEN cs[c].st = "gpj" ELSE FALSE

\* C32 as stated, for the test of _handleBareSpecifier on `key`: the call
\* has tested and marked its key before its first suspension, so a call that
\* is resumed from `await getPackageJson()` and goes on finds its key marked
C32_CheckedBeforeFirstSuspension ==
  [][\A c \in DOMAIN crawls :
       (AwaitsGetPackageJson(crawls, c) /\ AsksFor(crawls', c, "package.json"))
         => HandledKeyOf(crawls'[c]) \in handledSpecifiers]_vars

\* C32: a crawl of TypesFetcher tests and marks its key in one step, without
\* a suspension between the test and the mark (in _handleBareSpecifier after
\* `await getPackageJson()` when the specifier has no version): whenever a
\* call gets past a visited test its key was not marked before and is marked
\* after, no other call gets past the test of that key in the same step, and
\* a marked key stays marked, so that in no interleaving two crawls of one
\* key both proceed past the test
C32_TestAndMarkInOneStep ==
  /\ [][handledSpecifiers \subseteq handledSpecifiers']_vars
  /\ [][\A target \in {"package.json", "dts"} :
          \A c \in DOMAIN crawls' :
            (AsksFor(crawls', c, target) /\ ~AsksFor(crawls, c, target)) =>
              /\ HandledKeyOf(crawls'[c]) \notin handledSpecifiers
              /\ HandledKeyOf(crawls'[c]) \in handledSpecifiers'
              /\ \A d \in DOMAIN crawls' :
                   (/\ AsksFor(crawls', d, target)
                    /\ ~AsksFor(crawls, d, target)
                    /\ HandledKeyOf(crawls'[d]) = HandledKeyOf(crawls'[c]))
                     => d = c]_vars

\* two crawls of one key are under way, one of them was suspended in `await
\* getPackageJson()`, one is past the test and the other has returned at it
C32_Witness ==
  \E c, d \in DOMAIN crawls :
    /\ c # d
    /\ crawls[c].kind = "bare" /\ crawls[d].kind = "bare"
    /\ crawls[c].spec = crawls[d].spec
    /\ AsksFor(crawls, c, "package.json")
    /\ HandledKeyOf(crawls[c]) \in handledSpecifiers
    /\ crawls[d].st = "done"
    /\ crawls[d].npm # NoLoc
    /\ crawls[d].npm.version = <<>>

---------------------------------------------------------------------------
(* The Deferred values of _specifierToFetchResult.                         *)

\* the calls of _fetchAndAddToOutputFiles that await `this._cdn.fetch`
FetchingCalls == {c \in DOMAIN crawls : crawls[c].st = "fetch"}

\* the calls that have returned `deferred.promise` and await it
DeferredCalls == {c \in DOMAIN crawls : crawls[c].st = "deferred"}

\* C33: in one TypesFetcher and in every interleaving of its crawls,
\* _fetchAndAddToOutputFiles asks CachingCdn.fetch at most once for a
\* canonical specifier pkg@version/path: no two Deferred values have one
\* specifier, no two calls fetch for one Deferred, a call that found the
\* Deferred of a specifier awaits the one of its own canonical specifier, and
\* a Deferred that is settled keeps its result, which is what every caller of
\* the specifier is given
C33_OneFetchPerSpecifier ==
  /\ [](\A i, j \in DOMAIN specifierToFetchResult :
          specifierToFetchResult[i].key = specifierToFetchResult[j].key => i = j)
  /\ [](\A c, d \in FetchingCalls : crawls[c].entry = crawls[d].entry => c = d)
  /\ [](\A c \in FetchingCalls \cup DeferredCalls :
          /\ crawls[c].entry \in DOMAIN specifierToFetchResult
          /\ specifierToFetchResult[crawls[c].entry].key = LocKey(crawls[c].loc))
  /\ [](\A c \in FetchingCalls : ~specifierToFetchResult[crawls[c].entry].settled)
  /\ [][\A i \in DOMAIN specifierToFetchResult :
          /\ i \in DOMAIN specifierToFetchResult'
          /\ specifierToFetchResult'[i].key = specifierToFetchResult[i].key
          /\ specifierToFetchResult[i].settled =>
               specifierToFetchResult'[i] = specifierToFetchResult[i]]_vars

\* a call awaits the Deferred of a fetch that another call has in flight
C33_Witness ==
  \E c \in DeferredCalls :
    \E d \in FetchingCalls :
      /\ crawls[c].entry = crawls[d].entry
      /\ crawls[c].spec # crawls[d].spec
      /\ ~specifierToFetchResult[crawls[d].entry].settled

---------------------------------------------------------------------------
(* The Deferred package.json of _process.                                  *)

\* the resolutions that await the package.json of the project
ProjectWaits == {pid \in DOMAIN proms : proms[pid].wait.kind = "deferred"}

\* the places of the input, among those that _process has taken, that hold
\* a package.json that parses
ConsumedManifests ==
  {k \in 1..(inPos - 1) :
     /\ input[k].kind = "file"
     /\ input[k].name = PackageJsonName
     /\ input[k].content.valid}

\* what the Deferred is resolved with: the first package.json that parsed,
\* or undefined when the input had none
ExpectedManifest ==
  IF ConsumedManifests = {} THEN NotJson
  ELSE input[CHOOSE k \in ConsumedManifests :
               \A j \in ConsumedManifests : k <= j].content

\* C34: a resolution that awaits the package.json of the project is released
\* in the end: the Deferred is resolved exactly when _process has taken a
\* package.json that parses or has found its input at an end, with the
\* parsed manifest in the first case and with undefined otherwise; while it
\* is unresolved _process still has a step to take, and when the stream has
\* ended no resolution waits; the value never changes once set, every
\* resolution that is resumed goes on with the range that this value
\* declares, and a resolution that asks when the value is set can go on at
\* once
C34_ProjectManifestReleased ==
  /\ [](deferred.resolved <=> (ConsumedManifests # {} \/ processDone))
  /\ [](deferred.resolved => deferred.value = ExpectedManifest)
  /\ [](\A pid \in ProjectWaits :
          IF deferred.resolved THEN Resumable(proms[pid])
          ELSE CanProcessNext \/ CanProcessEnd)
  /\ [](mergedDone => ProjectWaits = {})
  /\ [][deferred.resolved => deferred' = deferred]_vars
  /\ [][\A pid \in ProjectWaits :
          proms'[pid] # proms[pid] =>
            /\ deferred.resolved
            /\ proms'[pid].loc.version
                 = DeclaredRange(deferred.value, proms[pid].loc.pkg)]_vars

\* the package.json came after the file whose resolution awaits it: the
\* value is set and the resolution is about to go on with the declared range
C34_Witness ==
  /\ Len(input) = 2
  /\ input[1].name # PackageJsonName
  /\ deferred.resolved
  /\ deferred.value.valid
  /\ ~processDone
  /\ \E pid \in ProjectWaits :
       DeclaredRange(deferred.value, proms[pid].loc.pkg) = <<"^1.0.0">>

---------------------------------------------------------------------------
(* One CachingCdn whose CDN publishes a version while calls are in flight. *)

\* the CDN before the versions 2.0.0 are published
OlderCdnFiles == {f \in CdnFiles : f.version = "1.0.0"}

InitCallersOlder ==
  /\ InitCdn
  /\ cdnData = OlderCdnFiles
  /\ InitNoPage
  /\ crawls = <<>>
  /\ entrypointTasks = <<>>
  /\ handledSpecifiers = {}
  /\ specifierToFetchResult = <<>>
  /\ rootDependencies = EmptyMap
  /\ dependencyGraph = EmptyMap
  /\ getFiles = [st |-> "idle", awaited |-> {}, i |-> 0, results |-> {}]
  /\ callers = [c \in Callers |-> IdleCaller]
  /\ calls = 0
  /\ InitNoTransformer

\* the versions 2.0.0 are published: from now on the CDN answers a range
\* that they satisfy with 2.0.0
Publish ==
  /\ cdnData = OlderCdnFiles
  /\ cdnData' = CdnFiles
  /\ UNCHANGED <<cdnVars, callerVars, transformerVars, typesFetcherVars, pageVars>>

NextCdnPublish == NextCdn \/ Publish

SpecCdnPublish == InitCallersOlder /\ [][NextCdnPublish]_vars

\* C35: an entry of the version cache, once written, is never written with
\* another version, also when two requests for the range are in flight and
\* the CDN publishes a version between their answers
C35_VersionCacheEntryNeverChanges ==
  [][\A pv \in DOMAIN versionCache :
       /\ pv \in DOMAIN versionCache'
       /\ versionCache'[pv] = versionCache[pv]]_vars

\* the URL that _fetch asks for a location that the version cache does not
\* resolve
RequestUrl(location) == UrlPrefix \o pkgVersionPath(location)

FailedEntries == {e \in DOMAIN netLog : e.status # 200}

\* no request has been answered with 200 that was for the URL of location,
\* that was redirected to it, or that resolved its range
NeverServed(location) ==
  \A e \in OkEntries :
    /\ e.url # RequestUrl(location)
    /\ e.resUrl # RequestUrl(location)
    /\ \/ isExactVersion(location.version)
       \/ ~parseUnpkgUrl(e.url).defined
       \/ pkgVersion(parseUnpkgUrl(e.url)) # pkgVersion(location)

\* C36: a request of CachingCdn that is answered with another status than
\* 200 makes the call fail and leaves the version cache and the file cache
\* as they were; a later fetch of a location whose request failed and that
\* was not served since issues a new request for it, and a fetch whose
\* request is answered with 200 succeeds with the body of that response
C36_FailureIsNotMemoized ==
  /\ [][\A c \in Callers :
          (/\ callers[c].st = "waiting"
           /\ callers'[c].st = "done"
           /\ ServerRespond(callers[c].pend.url).status # 200)
          => (/\ ~callers'[c].outcome.ok
              /\ versionCache' = versionCache
              /\ fileCache' = fileCache)]_vars
  /\ [][\A c \in Callers :
          (/\ callers[c].st = "idle"
           /\ callers'[c].st # "idle"
           /\ callers'[c].op = "fetch"
           /\ \E e \in FailedEntries : e.url = RequestUrl(callers'[c].arg)
           /\ NeverServed(callers'[c].arg))
          => (/\ callers'[c].st = "waiting"
              /\ callers'[c].pend.url = RequestUrl(callers'[c].arg))]_vars
  /\ [][\A c \in Callers :
          (/\ callers[c].st = "waiting"
           /\ callers'[c].st = "done"
           /\ callers[c].op = "fetch"
           /\ ServerRespond(callers[c].pend.url).status = 200)
          => (/\ callers'[c].outcome.ok
              /\ callers'[c].outcome.content
                   = ServerRespond(callers[c].pend.url).content)]_vars

\* a fetch has succeeded on a request for a URL whose earlier request failed
C36_Witness ==
  \E c \in Callers :
    /\ callers[c].st = "done"
    /\ callers[c].op = "fetch"
    /\ callers[c].pend # NoPend
    /\ callers[c].pend.url = RequestUrl(callers[c].arg)
    /\ callers[c].outcome.ok
    /\ \E e \in FailedEntries : e.url = callers[c].pend.url
    /\ \E e \in OkEntries : e.url = callers[c].pend.url /\ netLog[e] = 1

---------------------------------------------------------------------------
(* What becomes of the fetched files in the result of getFiles.            *)

\* the entries of _specifierToFetchResult that hold a fetched file
FetchedFiles ==
  {i \in DOMAIN specifierToFetchResult :
     specifierToFetchResult[i].settled /\ ~specifierToFetchResult[i].error}

\* the names under which the layout has the fetched file i returned
ReturnedNamesOf(i) ==
  {DirectoryOf(pl.path) \o parseNpmStyleSpecifier(specifierToFetchResult[i].key).path :
     pl \in {q \in Placed :
               /\ q.path[Len(q.path)]
                    = parseNpmStyleSpecifier(specifierToFetchResult[i].key).pkg
               /\ q.version
                    = parseNpmStyleSpecifier(specifierToFetchResult[i].key).version}}

\* every fetched file is among the returned files under one name at least
EveryFetchedFileReturned ==
  \A i \in FetchedFiles :
    \E name \in ReturnedNamesOf(i) :
      TypingsFile(name, specifierToFetchResult[i].result) \in getFiles.results

\* C37: when getFiles returns, every declaration file and package.json that
\* was fetched without an error is among the returned files under one name
\* at least, whatever the order of the steps of the crawls
C37_EveryFetchedFileReturned ==
  [][(getFiles.st = "drain" /\ getFiles'.st = "returned")
       => EveryFetchedFileReturned']_vars

---------------------------------------------------------------------------
(* getFiles comes to an end.                                               *)

\* the awaits that a call of _handleBareSpecifier or _handleRelativeSpecifier
\* has left at most before it has spawned the calls for the imports of its
\* declaration file, each of which has one await left unless it marks a key
CrawlRank(cr) ==
  CASE cr.st = "gpj" -> 1
    [] cr.st = "join" -> 1
    [] cr.st \in {"canon", "canonRef", "fetch", "deferred"} ->
         (IF cr.target = "dts" THEN MaxImports + 1 ELSE 0)
           + (CASE cr.st = "canon" -> 6
                [] cr.st = "canonRef" -> 4
                [] cr.st = "fetch" -> 2
                [] OTHER -> 1)
    [] OTHER -> 0

\* the steps that getFiles has left once the crawls are done
GetFilesRank ==
  CASE getFiles.st = "join" -> Len(specifierToFetchResult) + 3
    [] getFiles.st = "drain" -> Len(specifierToFetchResult) + 2 - getFiles.i
    [] OTHER -> 0

\* a measure of the work left: each key added to _handledSpecifiers pays for
\* the awaits of the call that added it
FetcherRank ==
  SumRanks(crawls, CrawlRank, Len(crawls))
    + GetFilesRank
    - (MaxImports + 8) * Cardinality(handledSpecifiers)

\* the test 'import cycle' of the typings: foo imports bar and its sibling
\* other, bar imports foo, other imports index
ImportCycle ==
  /\ cdnData = CycleCdn
  /\ EntrySpecifiers = << <<"foo">> >>

\* C38: when every call that is ready is run in the end and the CDN answers
\* every request, getFiles returns, import cycles among the declaration
\* files included: until it has returned some step can be taken, every step
\* leaves less work, a call awaits only calls that were made after it, and a
\* Deferred that is not settled is the one of a call that awaits the answer
\* of the CDN to its fetch
C38_GetFilesReturns ==
  /\ [](getFiles.st = "returned" \/ FetcherRunnable)
  /\ [][FetcherRank' < FetcherRank]_vars
  /\ [](\A c \in DOMAIN crawls : crawls[c].parent < c)
  /\ [](\A i \in DOMAIN specifierToFetchResult :
          specifierToFetchResult[i].settled
            \/ \E c \in FetchingCalls : crawls[c].entry = i /\ CanCrawlResume(c))

\* getFiles has returned after the crawl of the cycles: the files of foo,
\* of its sibling and of bar are returned
C38_Witness ==
  /\ getFiles.st = "returned"
  /\ ImportCycle
  /\ \A pkg \in {<<"foo">>, <<"bar">>} :
       ReturnedIn(DirectoryOf(<<pkg>>)) = ServedUnder(pkg, "1.0.0", DirectoryOf(<<pkg>>))

---------------------------------------------------------------------------
(* The playground service worker (playground-service-worker.js): the map   *)
(* of the file APIs of the sessions, setFileAPI, and the fetch listener.   *)
(* A fetch event is a call of the async function that respondWith is given *)
(* and takes one step from each await to the next.                         *)

\* the sessions that preview requests name: one whose client window is open
\* and one that no client has
Sessions == {"live", "gone"}

\* the fetch events that arrive at most
MaxFetches == 3

\* the service worker leaves the rest of the page alone
UnchangedByServiceWorker ==
  UNCHANGED <<cdnVars, callerVars, transformerVars, cdnData, typesFetcherVars,
              compiles, compiledFilesPromise, compiledFiles, getFileCalls>>

\* `new Deferred()`
NewDeferredAPI == [resolved |-> FALSE]

FetchEventOf(session, st, d) ==
  [session |-> session, st |-> st, deferred |-> d, status |-> 0]

\* the fetch listener up to its first await: `fileAPIs.get(sessionId)`, and
\* either `return deferred.promise` or `await self.clients.matchAll(...)`
FetchEvent(session) ==
  /\ Len(fetches) < MaxFetches
  /\ fetches' = Append(fetches,
                       IF session \in DOMAIN fileAPIs
                         THEN FetchEventOf(session, "fileAPI", fileAPIs[session])
                         ELSE FetchEventOf(session, "matchAll", 0))
  /\ UNCHANGED <<fileAPIs, deferredAPIs, postedMessages, connected>>
  /\ UnchangedByServiceWorker

\* no client has the session: `if (client === undefined) return`, and the
\* response is '404 playground file not found'
NoClient(r) ==
  /\ fetches' = [fetches EXCEPT ![r].st = "responded", ![r].status = 404]
  /\ UNCHANGED <<fileAPIs, deferredAPIs, postedMessages, connected>>

\* `deferred = new Deferred(); fileAPIs.set(sessionId, deferred);
\* client.postMessage(...); return deferred.promise`
AskClient(r) ==
  /\ deferredAPIs' = Append(deferredAPIs, NewDeferredAPI)
  /\ fileAPIs' = (fetches[r].session :> Len(deferredAPIs) + 1) @@ fileAPIs
  /\ postedMessages' = postedMessages + 1
  /\ fetches' = [fetches EXCEPT ![r].st = "fileAPI",
                                ![r].deferred = Len(deferredAPIs) + 1]
  /\ UNCHANGED connected

\* the fetch event r resumes after `await self.clients.matchAll(...)`
ClientsMatched(r) ==
  /\ fetches[r].st = "matchAll"
  /\ IF fetches[r].session = "live" THEN AskClient(r) ELSE NoClient(r)
  /\ UnchangedByServiceWorker

\* the fetch event r resumes with the file API and calls
\* `await fileAPI.getFile(filePath)`
FileAPIResolved(r) ==
  /\ fetches[r].st = "fileAPI"
  /\ deferredAPIs[fetches[r].deferred].resolved
  /\ fetches' = [fetches EXCEPT ![r].st = "getFile"]
  /\ UNCHANGED <<fileAPIs, deferredAPIs, postedMessages, connected>>
  /\ UnchangedByServiceWorker

\* getFile returns the file or undefined, and the event is responded to
GetFileReturns(r, found) ==
  /\ fetches[r].st = "getFile"
  /\ fetches' = [fetches EXCEPT ![r].st = "responded",
                                ![r].status = IF found THEN 200 ELSE 404]
  /\ UNCHANGED <<fileAPIs, deferredAPIs, postedMessages, connected>>
  /\ UnchangedByServiceWorker

\* setFileAPI(fileAPI, sessionId): a new Deferred is set when the session
\* has none or a resolved one, and the one of the session is resolved
SetFileAPI(session) ==
  IF session \in DOMAIN fileAPIs
    THEN IF deferredAPIs[fileAPIs[session]].resolved
           THEN /\ deferredAPIs' = Append(deferredAPIs, [resolved |-> TRUE])
                /\ fileAPIs' = [fileAPIs EXCEPT ![session] = Len(deferredAPIs) + 1]
           ELSE /\ deferredAPIs' = [deferredAPIs EXCEPT ![fileAPIs[session]].resolved = TRUE]
                /\ fileAPIs' = fileAPIs
    ELSE /\ deferredAPIs' = Append(deferredAPIs, [resolved |-> TRUE])
         /\ fileAPIs' = (session :> Len(deferredAPIs) + 1) @@ fileAPIs

\* CodeSampleEditor._connectServiceWorker: after the handshake the client
\* calls setFileAPI with its session id
ConnectServiceWorker ==
  /\ ~connected
  /\ connected' = TRUE
  /\ SetFileAPI("live")
  /\ UNCHANGED <<fetches, postedMessages>>
  /\ UnchangedByServiceWorker

\* the client answers a message of the service worker that asks for the
\* file API of its session with a call of setFileAPI
AnswerMessage ==
  /\ postedMessages > 0
  /\ postedMessages' = postedMessages - 1
  /\ SetFileAPI("live")
  /\ UNCHANGED <<fetches, connected>>
  /\ UnchangedByServiceWorker

NextServiceWorker ==
  \/ \E session \in Sessions : FetchEvent(session)
  \/ \E r \in DOMAIN fetches : ClientsMatched(r)
  \/ \E r \in DOMAIN fetches : FileAPIResolved(r)
  \/ \E r \in DOMAIN fetches, found \in BOOLEAN : GetFileReturns(r, found)
  \/ ConnectServiceWorker
  \/ AnswerMessage

InitServiceWorker ==
  /\ InitCdn
  /\ callers = [c \in Callers |-> IdleCaller]
  /\ calls = 0
  /\ InitNoTransformer
  /\ InitNoFetcher

SpecServiceWorker == InitServiceWorker /\ [][NextServiceWorker]_vars

\* the fetch events that await the file API of their session
AwaitFileAPI == {r \in DOMAIN fetches : fetches[r].st = "fileAPI"}

\* C39: a fetch event of a session with a live client never waits on a
\* Deferred that is unresolved and no longer the one of its session in the
\* map, which setFileAPI would never resolve; and once the client has
\* registered its file API, has answered every message of the service
\* worker, and no event is looking for its client, every event has its file
\* API, also when several events arrived before the file API was registered
C39_EveryFetchGetsFileAPI ==
  /\ \A r \in AwaitFileAPI :
       \/ deferredAPIs[fetches[r].deferred].resolved
       \/ fileAPIs[fetches[r].session] = fetches[r].deferred
  /\ (/\ connected
      /\ postedMessages = 0
      /\ \A r \in DOMAIN fetches : fetches[r].st # "matchAll")
       => \A r \in AwaitFileAPI : deferredAPIs[fetches[r].deferred].resolved

---------------------------------------------------------------------------
(* CodeSampleEditor (code-sample-editor.ts): _compileProject and _getFile. *)
(* A compile is the call of compileProject on the TypeScript worker, whose *)
(* promise resolves at any later time, in any order with the others. The   *)
(* result of compile k is written k, and 0 is `undefined`.                 *)

\* the calls of _compileProject at most
MaxCompiles == 3

\* the calls of _getFile at most
MaxGetFiles == 2

\* the editor leaves the service worker and the rest of the page alone
UnchangedByEditor ==
  UNCHANGED <<cdnVars, callerVars, transformerVars, cdnData, typesFetcherVars,
              fileAPIs, deferredAPIs, fetches, postedMessages, connected>>

\* `_compiledFilesPromise = Promise.resolve(...)` of the field initializer is
\* promise 0; promise k is the one of compile k
PromiseResolved(k) ==
  IF k = 0 THEN TRUE ELSE compiles[k].st = "resolved"

\* _compileProject with _files defined, up to its await: the worker is
\* called, its promise is stored and _compiledFiles is cleared
CompileProject ==
  /\ Len(compiles) < MaxCompiles
  /\ compiles' = Append(compiles, [st |-> "running"])
  /\ compiledFilesPromise' = Len(compiles) + 1
  /\ compiledFiles' = 0
  /\ UNCHANGED getFileCalls
  /\ UnchangedByEditor

\* the promise of compile k resolves and the call of _compileProject that
\* awaits it resumes, the first of the promise's reactions:
\* `this._compiledFiles = await ...`
CompileResolves(k) ==
  /\ compiles[k].st = "running"
  /\ compiles' = [compiles EXCEPT ![k].st = "resolved"]
  /\ compiledFiles' = k
  /\ UNCHANGED <<compiledFilesPromise, getFileCalls>>
  /\ UnchangedByEditor

\* _getFile up to `await this._compiledFilesPromise`
GetFile ==
  /\ Len(getFileCalls) < MaxGetFiles
  /\ getFileCalls' = Append(getFileCalls,
                            [promise |-> compiledFilesPromise, st |-> "await",
                             served |-> 0])
  /\ UNCHANGED <<compiles, compiledFilesPromise, compiledFiles>>
  /\ UnchangedByEditor

\* the call g of _getFile resumes and serves from _compiledFiles as it is
\* now; with _compiledFiles undefined it serves the source file of _files
GetFileResumes(g) ==
  /\ getFileCalls[g].st = "await"
  /\ PromiseResolved(getFileCalls[g].promise)
  /\ getFileCalls' = [getFileCalls EXCEPT ![g].st = "returned",
                                          ![g].served = compiledFiles]
  /\ UNCHANGED <<compiles, compiledFilesPromise, compiledFiles>>
  /\ UnchangedByEditor

NextEditor ==
  \/ CompileProject
  \/ \E k \in DOMAIN compiles : CompileResolves(k)
  \/ GetFile
  \/ \E g \in DOMAIN getFileCalls : GetFileResumes(g)

InitEditor ==
  /\ InitCdn
  /\ callers = [c \in Callers |-> IdleCaller]
  /\ calls = 0
  /\ InitNoTransformer
  /\ InitNoFetcher

SpecEditor == InitEditor /\ [][NextEditor]_vars

\* every call of _compileProject has completed
AllCompilesCompleted ==
  /\ compiles # <<>>
  /\ \A k \in DOMAIN compiles : compiles[k].st = "resolved"

\* C40: once every overlapping call of _compileProject has completed, in
\* whatever order, _compiledFiles (what _getFile serves) is the result of
\* the compile that was started last; and a call of _getFile that served
\* compiled content did so after the compile that was in flight when it was
\* called had completed
C40_ServesMostRecentCompile ==
  /\ AllCompilesCompleted => compiledFiles = Len(compiles)
  /\ \A g \in DOMAIN getFileCalls :
       (getFileCalls[g].st = "returned" /\ getFileCalls[g].served # 0)
         => PromiseResolved(getFileCalls[g].promise)

====
